---- MODULE Spec2Model ----
(***************************************************************************)
(* A model of the request execution engine of igem_registry_api:           *)
(*   rates.py   ratelimit / cooldown  (the rate-limit tracker)             *)
(*   calls.py   _call                 (the single-call executor)           *)
(*              _call_paginated       (the pagination driver)              *)
(*   client.py  Client                (the connection state and its modes) *)
(*   utils.py   connected, authenticated                                   *)
(*                                                                         *)
(* Spec      : a Client on which _call is executed repeatedly, one step of *)
(*             the function per action.                                    *)
(* SpecRates : ratelimit and cooldown applied to every header map of a     *)
(*             bounded set.                                                *)
(* SpecPaged : one _call_paginated on a Client, one step of the function   *)
(*             per action, each _call it makes run to completion.          *)
(* SpecModes : the methods of Client called one after another, each _call  *)
(*             they make run to completion.                                *)
(* SpecPartial : partial applied to a model class and the derived class    *)
(*             called, as in tests/types_test.py.                          *)
(* SpecPagedLoop : the loop of _call_paginated from its first iteration,   *)
(*             with weak fairness of its steps.                            *)
(* SpecTwo   : two threads executing _call on one shared Client, one read  *)
(*             or write of the shared attributes per action.               *)
(***************************************************************************)
EXTENDS Integers, Sequences, FiniteSets, TLC

\* ------------------------------------------------------------------ bounds
\* Largest retry budget a Client is constructed with.
MaxRetries == 3
\* The count of consecutive 5xx responses saturates here.
MaxStreak == 8
\* Largest value of a remaining/reset header in SpecRates.
MaxHeader == 2
\* The number of non-empty pages the server holds at most.
MaxPages == 3
\* The largest number of items in one page (max_length of
\* PaginatedResponse.data, scaled down).
MaxItems == 2
\* Largest limit passed to _call_paginated.
MaxLimit == 3

\* --------------------------------------------------------------- utilities
None == << >>
Some(x) == << x >>

Max(S, default) == IF S = {} THEN default ELSE CHOOSE m \in S : \A n \in S : n <= m

Min2(a, b) == IF a <= b THEN a ELSE b

\* dict.get(key, default) / CaseInsensitiveDict.get
Get(headers, h, default) == IF h \in DOMAIN headers THEN headers[h] ELSE default

\* ---------------------------------------------------------------- rates.py
WINDOWS == << "short", "medium", "large" >>
METRICS == << "remaining", "reset", "limit" >>

\* f"x-ratelimit-{metric}-{window}" and f"retry-after-{window}"
RateHeader(metric, window) == << "x-ratelimit", metric, window >>
RetryHeader(window) == << "retry-after", window >>

RATE_LIMIT_HEADERS ==
    { RateHeader(METRICS[m], WINDOWS[w]) : m \in 1..3, w \in 1..3 }

RETRY_AFTER_HEADERS == { RetryHeader(WINDOWS[w]) : w \in 1..3 }

\* RateLimit(**data): a field absent from data takes its default.
RateLimit(data) ==
    [ balance |-> Get(data, "remaining", << 0, 0, 0 >>),
      reset   |-> Get(data, "reset", << 5, 60, 600 >>),
      quota   |-> Get(data, "limit", << 5, 60, 200 >>) ]

\* The three values read for one metric, -1 standing for a missing header.
MetricValues(headers, metric) ==
    << Get(headers, RateHeader(metric, "short"), -1),
       Get(headers, RateHeader(metric, "medium"), -1),
       Get(headers, RateHeader(metric, "large"), -1) >>

\* A plausible bug: nothing is extracted unless all nine headers are there.
ExtractedDataAllOrNothing(headers) ==
    IF \A i \in 1..3 : \A j \in 1..3 : MetricValues(headers, METRICS[i])[j] # -1
    THEN [ m \in { METRICS[i] : i \in 1..3 } |-> MetricValues(headers, m) ]
    ELSE << >>

\* The dict `data` at the end of the loop over METRICS.
ExtractedData(headers) ==
    LET kept == { m \in { METRICS[i] : i \in 1..3 } :
                    \A i \in 1..3 : MetricValues(headers, m)[i] # -1 }
    IN  [ m \in kept |-> MetricValues(headers, m) ]

_ratelimit(headers) == RateLimit(ExtractedData(headers))

\* A plausible bug: the reset times of all windows, exhausted or not.
CooldownAllWindows(rl) == Max({ rl.reset[i] : i \in 1..3 }, 0)

_cooldown(rl) ==
    LET waits == { rl.reset[i] : i \in { j \in 1..3 : rl.balance[j] = 0 } }
    IN  Max(waits, 0)

\* --------------------------------------------------------------- errors.py
\* The exception classes, each with its base class ("" for ApiError's own base).
Base(cls) ==
    CASE cls = "RateLimitError" -> "ClientError"
      [] cls = "ClientError" -> "HTTPError"
      [] cls = "ServerError" -> "HTTPError"
      [] cls \in { "HTTPError", "TransportError", "RetryExhaustedError",
                   "EmptyBodyError", "ResponseValidationError" } -> "ApiError"
      [] OTHER -> ""

\* isinstance(error of class cls, of class target)
IsInstance(cls, target) ==
    \/ cls = target
    \/ Base(cls) = target
    \/ Base(Base(cls)) = target
    \/ Base(Base(Base(cls))) = target

\* An outcome of _call: a returned value or a raised error.  HTTPError and its
\* subclasses carry status, reason, method and url; the other errors a message.
NoOutcome == [ kind |-> "none", status |-> 0, reason |-> "", method |-> "", url |-> "" ]

Returned(what) ==
    [ kind |-> what, status |-> 0, reason |-> "", method |-> "", url |-> "" ]

Raised(cls) ==
    [ kind |-> cls, status |-> 0, reason |-> "", method |-> "", url |-> "" ]

\* HTTPError.__init__(status, reason, method, url)
HTTPError(cls, status, reason, method, url) ==
    [ kind |-> cls, status |-> status, reason |-> reason, method |-> method, url |-> url ]

\* ------------------------------------------------------- http.HTTPStatus
is_success(status) == 200 <= status /\ status <= 299
is_client_error(status) == 400 <= status /\ status <= 499
is_server_error(status) == 500 <= status /\ status <= 599
TOO_MANY_REQUESTS == 429

\* A Python bool compared with an int: True == 1, False == 0.
BoolAsInt(b) == IF b THEN 1 ELSE 0

\* ---------------------------------------------------------------- calls.py
DEFAULT_USER_AGENT == "igem-registry-api/version (+repository)"

\* A plausible bug: the header is written whether or not the caller set it.
SetAlways(headers, key, value) == (key :> value) @@ headers

\* request.headers.setdefault("User-Agent", ...)
SetDefault(headers, key, value) ==
    IF key \in DOMAIN headers THEN headers ELSE (key :> value) @@ headers

\* A plausible bug: no floor, a cooldown of 0 stays 0.
BackoffNoFloor(c) == Min2(c * 2, 60)

\* A plausible bug: no cap.
BackoffNoCap(c) == (IF c = 0 THEN 1 ELSE c) * 2

\* A plausible bug: a cooldown already above the cap is kept.
BackoffKeepsAbove(c) == IF c > 60 THEN c ELSE Min2((IF c = 0 THEN 1 ELSE c) * 2, 60)

\* client.cooldown = min((client.cooldown or 1) * 2, 60)
Backoff(c) == Min2((IF c = 0 THEN 1 ELSE c) * 2, 60)

\* A plausible bug: min in place of max.
RetryAfterMin(headers) ==
    LET values == { Get(headers, h, 1) : h \in RETRY_AFTER_HEADERS }
    IN  CHOOSE m \in values : \A n \in values : m <= n

\* max(int(response.headers.get(header, 1)) for header in RETRY_AFTER_HEADERS)
RetryAfter(headers) ==
    LET values == { Get(headers, h, 1) : h \in RETRY_AFTER_HEADERS }
    IN  CHOOSE m \in values : \A n \in values : n <= m

\* all(header in response.headers for header in RATE_LIMIT_HEADERS)
HasRateLimitHeaders(headers) == \A h \in RATE_LIMIT_HEADERS : h \in DOMAIN headers

\* The class raised by `match status:` for a status that is not a success.
\* `case status.is_client_error:` and `case status.is_server_error:` are value
\* patterns: the subject is compared for equality with the bool.
StatusErrorClass(status) ==
    IF status = TOO_MANY_REQUESTS THEN "RateLimitError"
    ELSE IF status = BoolAsInt(is_client_error(status)) THEN "ClientError"
    ELSE IF status = BoolAsInt(is_server_error(status)) THEN "ServerError"
    ELSE "HTTPError"

\* ------------------------------------------------------------------ inputs
NoHeaders == << >>

\* A header map carrying the nine rate-limit headers with the given triplets.
RateHeaders(remaining, reset, limit) ==
    [ h \in RATE_LIMIT_HEADERS |->
        LET w == CHOOSE i \in 1..3 : WINDOWS[i] = h[3]
        IN  CASE h[2] = "remaining" -> remaining[w]
              [] h[2] = "reset" -> reset[w]
              [] h[2] = "limit" -> limit[w] ]

\* The header map m without the header h.
Without(m, h) == [ k \in DOMAIN m \ { h } |-> m[k] ]

\* Two windows exhausted, the longer wait first: cooldown 90.
ExhaustedHeaders == RateHeaders(<< 0, 0, 7 >>, << 90, 5, 10 >>, << 5, 60, 200 >>)
\* No window exhausted: cooldown 0.
OpenHeaders == RateHeaders(<< 2, 4, 7 >>, << 5, 10, 90 >>, << 5, 60, 200 >>)
\* Eight of the nine headers.
PartialHeaders == Without(ExhaustedHeaders, RateHeader("reset", "large"))
\* All nine headers, one of them with the value -1.
MinusOneHeaders == RateHeaders(<< 0, 2, 0 >>, << -1, 10, 90 >>, << 5, 60, 200 >>)

RateHeaderMaps ==
    { NoHeaders, ExhaustedHeaders, OpenHeaders, PartialHeaders, MinusOneHeaders }

\* The retry-after headers of a 429 response: a value below the default of an
\* absent header, the short window alone, a larger value for a later window,
\* all three windows at 0.
RetryAfterMaps ==
    { RetryHeader("short") :> 0,
      RetryHeader("short") :> 5,
      RetryHeader("short") :> 5 @@ RetryHeader("large") :> 90,
      RetryHeader("short") :> 0 @@ RetryHeader("medium") :> 0
        @@ RetryHeader("large") :> 0 }

\* response.reason
Reason(status) ==
    CASE status = 200 -> "OK"
      [] status = 301 -> "Moved Permanently"
      [] status = 404 -> "Not Found"
      [] status = 429 -> "Too Many Requests"
      [] status = 500 -> "Internal Server Error"
      [] status = 503 -> "Service Unavailable"
      [] OTHER -> "Unknown"

\* response.content: empty, not valid against the schema, or valid.
Contents == { "empty", "invalid", "valid" }

Response(status, headers, content) ==
    [ status |-> status, reason |-> Reason(status), headers |-> headers,
      content |-> content ]

\* The responses the server may give to one request.
Responses ==
    { Response(500, NoHeaders, "empty"), Response(503, ExhaustedHeaders, "invalid") }
    \cup { Response(429, ra, "empty") : ra \in RetryAfterMaps }
    \cup { Response(200, NoHeaders, c) : c \in Contents }
    \cup { Response(200, h, "valid") : h \in RateHeaderMaps }
    \cup { Response(404, h, "invalid") : h \in { NoHeaders, ExhaustedHeaders } }
    \cup { Response(301, NoHeaders, "empty") }

\* The request descriptor and response schema a caller passes to _call.
CallInputs ==
    { [ method |-> "GET", url |-> "/parts",
        headers |-> ("Accept" :> "application/json"), data |-> "Schema" ],
      [ method |-> "POST", url |-> "/auth/sign-in",
        headers |-> ("User-Agent" :> "caller/1.0"), data |-> "None" ] }

\* ------------------------------------------------------------------- state
VARIABLES
    retries,    \* client.retries
    stream,     \* client.stream
    cooldown,   \* client.cooldown
    ratelimit,  \* client.ratelimit: None or Some(RateLimit)
    pc,         \* position in _call
    request,    \* the request descriptor of the current call
    data,       \* the response schema of the current call, "None" when omitted
    attempt,    \* the loop variable of `for attempt in range(client.retries)`
    responses,  \* the responses received in the current call, oldest first
    slept,      \* the durations slept in the current call, oldest first
    sent,       \* the number of session.send invocations of the current call
    outcome,    \* what the current call returned or raised
    streak,     \* history: the number of 5xx responses handled in a row since
                \* the cooldown was 0, -1 once anything else wrote the cooldown
    hdrs,       \* SpecRates: the header map
    snap,       \* SpecRates: None or Some(ratelimit(hdrs))
    wait,       \* SpecRates: cooldown(snap)
    rpc,        \* SpecRates: position
    ppc,        \* position in _call_paginated
    given,      \* history: the request descriptor as the caller passed it
    params,     \* request.params of the request descriptor
    limit,      \* the limit argument: None or Some(n)
    progress,   \* a progress callback was passed
    results,    \* the list `results` of _call_paginated
    envelope,   \* `response` in _call_paginated: what the last _call returned
    collected,  \* what _call_paginated returned or raised
    executed,   \* history: request.params as each _call received it
    fetched,    \* history: the data of each envelope received, oldest first
    metas,      \* history: the metadata of each envelope received
    reported,   \* history: the (current, total) of each progress call
    mode,       \* client.mode: "NONE", "ANON" or "AUTH"
    base,       \* client.base: None or Some(url)
    user,       \* client.user: None or Some(account)
    op,         \* the Client method being executed, or executed last
    cpc,        \* position in that method
    result,     \* what that method returned or raised
    entry,      \* history: the client state when that method was called
    issued,     \* history: the number of _call executions of that method
    health,     \* connect's local health, None before the health check returned
    original,   \* the model class partial is applied to
    derived,    \* the class partial returned
    kwargs,     \* the keyword arguments the derived class is called with
    instance,   \* what that call produced
    tpc,        \* position: off, defined, applied, constructed
    calls,      \* two threads in _call on one client: the locals of each
    overlap     \* history: the two calls have been in progress together

clientVars == << retries, stream, cooldown, ratelimit >>
callVars == << pc, request, data, attempt, responses, slept, sent, outcome >>
ratesVars == << hdrs, snap, wait, rpc >>
pagedVars == << ppc, given, params, limit, progress, results, envelope, collected,
               executed, fetched, metas, reported >>
modeVars == << mode, base, user, op, cpc, result, entry, issued, health >>
partialVars == << original, derived, kwargs, instance, tpc >>
twoVars == << calls, overlap >>
vars == << retries, stream, cooldown, ratelimit, pc, request, data, attempt,
           responses, slept, sent, outcome, streak, hdrs, snap, wait, rpc,
           ppc, given, params, limit, progress, results, envelope, collected,
           executed, fetched, metas, reported,
           mode, base, user, op, cpc, result, entry, issued, health,
           original, derived, kwargs, instance, tpc, calls, overlap >>

\* The last response received: `response` in _call.
response == responses[Len(responses)]
status == response.status

\* Client.__init__
ClientInit(r, s) ==
    /\ retries = r
    /\ stream = s
    /\ ratelimit = None
    /\ cooldown = 0

CallIdle ==
    /\ pc = "idle"
    /\ request = [ method |-> "", url |-> "", headers |-> NoHeaders ]
    /\ data = "None"
    /\ attempt = 0
    /\ responses = << >>
    /\ slept = << >>
    /\ sent = 0
    /\ outcome = NoOutcome

RatesOff ==
    /\ hdrs = NoHeaders
    /\ snap = None
    /\ wait = 0
    /\ rpc = "off"

\* What _call_paginated returned or raised: the item list and the metadata of
\* a return, the error raised.
NoCollected ==
    [ kind |-> "none", items |-> << >>, metadata |-> None, error |-> NoOutcome ]

NoGiven == [ request |-> [ method |-> "", url |-> "", headers |-> NoHeaders ],
             params |-> << >> ]

PagedOff ==
    /\ ppc = "off"
    /\ given = NoGiven
    /\ params = << >>
    /\ limit = None
    /\ progress = FALSE
    /\ results = << >>
    /\ envelope = None
    /\ collected = NoCollected
    /\ executed = << >>
    /\ fetched = << >>
    /\ metas = << >>
    /\ reported = << >>

\* Client.__init__: the mode, the base URL and the user.
ModeInit(b) ==
    /\ mode = "NONE"
    /\ base = b
    /\ user = None

\* What a Client method returned or raised.
NoResult == [ kind |-> "none", error |-> NoOutcome ]

\* The client state a method is called in.
Entered == [ mode |-> mode, user |-> user, cooldown |-> cooldown,
             ratelimit |-> ratelimit ]

ModeOff ==
    /\ ModeInit(None)
    /\ op = ""
    /\ cpc = "off"
    /\ result = NoResult
    /\ entry = [ mode |-> "NONE", user |-> None, cooldown |-> 0, ratelimit |-> None ]
    /\ issued = 0
    /\ health = None

\* No call of a derived class has been made.
NoInstance == [ kind |-> "none", fields |-> << >> ]

PartialOff ==
    /\ original = << >>
    /\ derived = << >>
    /\ kwargs = << >>
    /\ instance = NoInstance
    /\ tpc = "off"

\* The threads sharing one client.
Threads == { 1, 2 }

\* The locals of a thread that has not called _call.
TwoIdle ==
    [ pc |-> "idle", attempt |-> 0,
      resp |-> [ status |-> 0, reason |-> "", headers |-> << >>, content |-> "empty" ],
      slept |-> -1, owed |-> -1, hit |-> FALSE, read |-> 0, outcome |-> "none" ]

TwoOff ==
    /\ calls = [ t \in Threads |-> TwoIdle ]
    /\ overlap = FALSE

\* The clients constructed: every retry budget without streaming, and a
\* streaming client.
ClientConfigs ==
    { [ retries |-> r, stream |-> FALSE ] : r \in 0..MaxRetries }
    \cup { [ retries |-> 1, stream |-> TRUE ] }

Init ==
    /\ \E c \in ClientConfigs : ClientInit(c.retries, c.stream)
    /\ CallIdle
    /\ streak = 0
    /\ RatesOff
    /\ PagedOff
    /\ ModeOff
    /\ PartialOff
    /\ TwoOff

\* ------------------------------------------------------------------- _call
\* Entry: the default User-Agent is set on the request descriptor.
CallBegin ==
    /\ pc \in { "idle", "done" }
    /\ \E in \in CallInputs :
        /\ request' = [ method |-> in.method, url |-> in.url,
                        headers |-> SetDefault(in.headers, "User-Agent",
                                               DEFAULT_USER_AGENT) ]
        /\ data' = in.data
    /\ attempt' = 0
    /\ responses' = << >>
    /\ slept' = << >>
    /\ sent' = 0
    /\ outcome' = NoOutcome
    /\ pc' = "loop"
    /\ UNCHANGED << clientVars, streak, ratesVars, modeVars, partialVars, twoVars, pagedVars >>

\* A plausible bug: the cooldown is slept before the first attempt only.
CallAttemptSleepsOnce ==
    /\ pc = "loop"
    /\ attempt < retries
    /\ slept' = Append(slept, IF attempt = 0 THEN cooldown ELSE 0)
    /\ pc' = "send"
    /\ UNCHANGED << clientVars, request, data, attempt, responses, sent, outcome,
                    streak, ratesVars, modeVars, partialVars, twoVars, pagedVars >>

\* A plausible bug: the loop runs once more than the budget.
CallAttemptInclusive ==
    /\ pc = "loop"
    /\ attempt <= retries
    /\ slept' = Append(slept, cooldown)
    /\ pc' = "send"
    /\ UNCHANGED << clientVars, request, data, attempt, responses, sent, outcome,
                    streak, ratesVars, modeVars, partialVars, twoVars, pagedVars >>

\* One more iteration of the loop: the request is prepared and the cooldown slept.
CallAttempt ==
    /\ pc = "loop"
    /\ attempt < retries
    /\ slept' = Append(slept, cooldown)
    /\ pc' = "send"
    /\ UNCHANGED << clientVars, request, data, attempt, responses, sent, outcome,
                    streak, ratesVars, modeVars, partialVars, twoVars, pagedVars >>

\* session.send returns a response.
CallSend ==
    /\ pc = "send"
    /\ \E r \in Responses : responses' = Append(responses, r)
    /\ sent' = sent + 1
    /\ pc' = "classify"
    /\ UNCHANGED << clientVars, request, data, attempt, slept, outcome, streak,
                    ratesVars, modeVars, partialVars, twoVars, pagedVars >>

\* session.send raises before a response is received.
CallSendRaises ==
    /\ pc = "send"
    /\ sent' = sent + 1
    /\ pc' = "except"
    /\ UNCHANGED << clientVars, request, data, attempt, responses, slept, outcome,
                    streak, ratesVars, modeVars, partialVars, twoVars, pagedVars >>

\* A plausible bug: a transport failure is retried like a server error.
CallTransportErrorRetried ==
    /\ pc = "except"
    /\ attempt' = attempt + 1
    /\ pc' = "loop"
    /\ UNCHANGED << clientVars, request, data, responses, slept, sent, outcome,
                    streak, ratesVars, modeVars, partialVars, twoVars, pagedVars >>

\* except Exception: TransportError is raised from it.
CallTransportError ==
    /\ pc = "except"
    /\ outcome' = Raised("TransportError")
    /\ pc' = "done"
    /\ UNCHANGED << clientVars, request, data, attempt, responses, slept, sent,
                    streak, ratesVars, modeVars, partialVars, twoVars, pagedVars >>

\* A plausible bug: the rate-limit state is refreshed from every response
\* that carries the headers, a retried one too.
CallServerErrorRefreshes ==
    /\ pc = "classify"
    /\ is_server_error(status)
    /\ cooldown' = Backoff(cooldown)
    /\ ratelimit' = IF HasRateLimitHeaders(response.headers)
                    THEN Some(_ratelimit(response.headers)) ELSE ratelimit
    /\ streak' = IF streak < 0 THEN -1 ELSE Min2(streak + 1, MaxStreak)
    /\ attempt' = attempt + 1
    /\ pc' = "loop"
    /\ UNCHANGED << retries, stream, request, data, responses, slept,
                    sent, outcome, ratesVars, modeVars, partialVars, twoVars, pagedVars >>

\* status.is_server_error: backoff and continue.
CallServerError ==
    /\ pc = "classify"
    /\ is_server_error(status)
    /\ cooldown' = Backoff(cooldown)
    /\ streak' = IF streak < 0 THEN -1 ELSE Min2(streak + 1, MaxStreak)
    /\ attempt' = attempt + 1
    /\ pc' = "loop"
    /\ UNCHANGED << retries, stream, ratelimit, request, data, responses, slept,
                    sent, outcome, ratesVars, modeVars, partialVars, twoVars, pagedVars >>

\* status == TOO_MANY_REQUESTS: cooldown from the retry-after headers and continue.
CallTooManyRequests ==
    /\ pc = "classify"
    /\ ~ is_server_error(status)
    /\ status = TOO_MANY_REQUESTS
    /\ cooldown' = RetryAfter(response.headers)
    /\ streak' = IF cooldown' = 0 THEN 0 ELSE -1
    /\ attempt' = attempt + 1
    /\ pc' = "loop"
    /\ UNCHANGED << retries, stream, ratelimit, request, data, responses, slept,
                    sent, outcome, ratesVars, modeVars, partialVars, twoVars, pagedVars >>

\* A plausible bug: a 4xx status is retried too.
CallBreakRetriesClientError ==
    /\ pc = "classify"
    /\ ~ is_server_error(status)
    /\ status # TOO_MANY_REQUESTS
    /\ IF is_client_error(status)
       THEN attempt' = attempt + 1 /\ pc' = "loop"
       ELSE attempt' = attempt /\ pc' = "rate"
    /\ UNCHANGED << clientVars, request, data, responses, slept, sent, outcome,
                    streak, ratesVars, modeVars, partialVars, twoVars, pagedVars >>

\* Any other status: break.
CallBreak ==
    /\ pc = "classify"
    /\ ~ is_server_error(status)
    /\ status # TOO_MANY_REQUESTS
    /\ pc' = "rate"
    /\ UNCHANGED << clientVars, request, data, attempt, responses, slept, sent,
                    outcome, streak, ratesVars, modeVars, partialVars, twoVars, pagedVars >>

\* A plausible bug: the status error of the last response is raised when the
\* loop ends without break.
CallExhaustedRaisesStatus ==
    /\ pc = "loop"
    /\ ~ (attempt < retries)
    /\ outcome' =
         IF responses = << >> THEN Raised("RetryExhaustedError")
         ELSE HTTPError(IF status = TOO_MANY_REQUESTS THEN "RateLimitError"
                        ELSE "ServerError",
                        status, response.reason, request.method, request.url)
    /\ pc' = "done"
    /\ UNCHANGED << clientVars, request, data, attempt, responses, slept, sent,
                    streak, ratesVars, modeVars, partialVars, twoVars, pagedVars >>

\* A plausible bug: the cooldown is cleared when the budget is used up.
CallExhaustedClearsCooldown ==
    /\ pc = "loop"
    /\ ~ (attempt < retries)
    /\ outcome' = Raised("RetryExhaustedError")
    /\ cooldown' = 0
    /\ pc' = "done"
    /\ UNCHANGED << retries, stream, ratelimit, request, data, attempt, responses,
                    slept, sent, streak, ratesVars, modeVars, partialVars, twoVars, pagedVars >>

\* The else branch of the loop: it ended without break.
CallExhausted ==
    /\ pc = "loop"
    /\ ~ (attempt < retries)
    /\ outcome' = Raised("RetryExhaustedError")
    /\ pc' = "done"
    /\ UNCHANGED << clientVars, request, data, attempt, responses, slept, sent,
                    streak, ratesVars, modeVars, partialVars, twoVars, pagedVars >>

\* A plausible bug: the rate-limit state is refreshed only from a 2xx response.
CallRateLimitOnSuccess ==
    /\ pc = "rate"
    /\ IF HasRateLimitHeaders(response.headers) /\ is_success(status)
       THEN /\ ratelimit' = Some(_ratelimit(response.headers))
            /\ cooldown' = _cooldown(_ratelimit(response.headers))
            /\ streak' = IF cooldown' = 0 THEN 0 ELSE -1
       ELSE UNCHANGED << ratelimit, cooldown, streak >>
    /\ pc' = "status"
    /\ UNCHANGED << retries, stream, request, data, attempt, responses, slept,
                    sent, outcome, ratesVars, modeVars, partialVars, twoVars, pagedVars >>

\* After the loop: the rate-limit state is refreshed from a complete header set.
CallRateLimit ==
    /\ pc = "rate"
    /\ IF HasRateLimitHeaders(response.headers)
       THEN /\ ratelimit' = Some(_ratelimit(response.headers))
            /\ cooldown' = _cooldown(_ratelimit(response.headers))
            /\ streak' = IF cooldown' = 0 THEN 0 ELSE -1
       ELSE UNCHANGED << ratelimit, cooldown, streak >>
    /\ pc' = "status"
    /\ UNCHANGED << retries, stream, request, data, attempt, responses, slept,
                    sent, outcome, ratesVars, modeVars, partialVars, twoVars, pagedVars >>

\* A plausible bug: without a response schema, or in streaming mode, the
\* status of the final response is not looked at.
CallStatusErrorOnlyWithSchema ==
    /\ pc = "status"
    /\ ~ is_success(status)
    /\ outcome' = IF data = "None" \/ stream THEN Returned("ReturnNone")
                  ELSE HTTPError(StatusErrorClass(status), status, response.reason,
                                 request.method, request.url)
    /\ pc' = "done"
    /\ UNCHANGED << clientVars, request, data, attempt, responses, slept, sent,
                    streak, ratesVars, modeVars, partialVars, twoVars, pagedVars >>

\* not status.is_success: the status error is raised.
CallStatusError ==
    /\ pc = "status"
    /\ ~ is_success(status)
    /\ outcome' = HTTPError(StatusErrorClass(status), status, response.reason,
                            request.method, request.url)
    /\ pc' = "done"
    /\ UNCHANGED << clientVars, request, data, attempt, responses, slept, sent,
                    streak, ratesVars, modeVars, partialVars, twoVars, pagedVars >>

\* A plausible bug: streaming mode is not consulted, the body is validated.
CallBodyIgnoresStream ==
    /\ pc = "status"
    /\ is_success(status)
    /\ outcome' =
         IF data = "None" THEN Returned("ReturnNone")
         ELSE IF response.content = "empty" THEN Raised("EmptyBodyError")
         ELSE IF response.content = "invalid" THEN Raised("ResponseValidationError")
         ELSE Returned("ReturnValue")
    /\ pc' = "done"
    /\ UNCHANGED << clientVars, request, data, attempt, responses, slept, sent,
                    streak, ratesVars, modeVars, partialVars, twoVars, pagedVars >>

\* A plausible bug: no check for an empty body, the validation meets it.
CallBodyNoEmptyCheck ==
    /\ pc = "status"
    /\ is_success(status)
    /\ outcome' =
         IF data = "None" \/ stream THEN Returned("ReturnNone")
         ELSE IF response.content \in { "empty", "invalid" }
              THEN Raised("ResponseValidationError")
         ELSE Returned("ReturnValue")
    /\ pc' = "done"
    /\ UNCHANGED << clientVars, request, data, attempt, responses, slept, sent,
                    streak, ratesVars, modeVars, partialVars, twoVars, pagedVars >>

\* data is None or client.stream: None is returned; otherwise the body is
\* checked and validated.
CallBody ==
    /\ pc = "status"
    /\ is_success(status)
    /\ outcome' =
         IF data = "None" \/ stream THEN Returned("ReturnNone")
         ELSE IF response.content = "empty" THEN Raised("EmptyBodyError")
         ELSE IF response.content = "invalid" THEN Raised("ResponseValidationError")
         ELSE Returned("ReturnValue")
    /\ pc' = "done"
    /\ UNCHANGED << clientVars, request, data, attempt, responses, slept, sent,
                    streak, ratesVars, modeVars, partialVars, twoVars, pagedVars >>

Next ==
    \/ CallBegin
    \/ CallAttempt
    \/ CallSend
    \/ CallSendRaises
    \/ CallTransportError
    \/ CallServerError
    \/ CallTooManyRequests
    \/ CallBreak
    \/ CallExhausted
    \/ CallRateLimit
    \/ CallStatusError
    \/ CallBody

Spec == Init /\ [][Next]_vars

\* --------------------------------------------------------------- SpecRates
\* ratelimit and cooldown applied to header maps: every remaining and reset
\* header is absent or holds a value of -1..MaxHeader, the limit headers are
\* all absent, all present, or present for one window only.
MetricHeaders(metric) == { RateHeader(metric, WINDOWS[w]) : w \in 1..3 }

PartialMaps(keys, values) == UNION { [ D -> values ] : D \in SUBSET keys }

LimitMaps ==
    { NoHeaders,
      RateHeader("limit", "short") :> 5,
      RateHeader("limit", "short") :> 5 @@ RateHeader("limit", "medium") :> 60
        @@ RateHeader("limit", "large") :> 200 }

RatesHeaderMaps ==
    { a @@ b @@ c :
        a \in PartialMaps(MetricHeaders("remaining"), -1..MaxHeader),
        b \in PartialMaps(MetricHeaders("reset"), -1..MaxHeader),
        c \in LimitMaps }

RatesInit ==
    /\ ClientInit(MaxRetries, FALSE)
    /\ CallIdle
    /\ streak = 0
    /\ hdrs \in RatesHeaderMaps
    /\ snap = None
    /\ wait = 0
    /\ rpc = "headers"
    /\ PagedOff
    /\ ModeOff
    /\ PartialOff
    /\ TwoOff

\* ratelimit(headers)
RatesExtract ==
    /\ rpc = "headers"
    /\ snap' = Some(_ratelimit(hdrs))
    /\ rpc' = "extracted"
    /\ UNCHANGED << clientVars, callVars, streak, hdrs, wait, pagedVars, modeVars, partialVars, twoVars >>

\* cooldown(ratelimit)
RatesCooldown ==
    /\ rpc = "extracted"
    /\ wait' = _cooldown(snap[1])
    /\ rpc' = "cooled"
    /\ UNCHANGED << clientVars, callVars, streak, hdrs, snap, pagedVars, modeVars, partialVars, twoVars >>

RatesNext == RatesExtract \/ RatesCooldown

SpecRates == RatesInit /\ [][RatesNext]_vars

\* --------------------------------------------------------- _call_paginated
\* request.params["pageSize"] = 100
PageSize == 100

\* results[:n]
Take(seq, n) == SubSeq(seq, 1, Min2(n, Len(seq)))

\* The items of a page: the i-th item of the page requested as number p.
Items(p, n) == [ i \in 1..n |-> << p, i >> ]

\* PaginatedResponse.total of an envelope.
Totals == { 1, 6 }

\* The envelopes the server can answer the request for page p with: up to
\* MaxItems items, none past page MaxPages, any total, metadata or none.
Envelopes(p) ==
    { [ data |-> Items(p, n), total |-> t, metadata |-> m ] :
        n \in (IF p <= MaxPages THEN 0..MaxItems ELSE { 0 }),
        t \in Totals,
        m \in { None, Some(<< "metadata", p >>) } }

\* The final responses of the _call executions of _call_paginated.
PagedResponses ==
    { r \in Responses : r.status # 429 /\ r.headers \in { NoHeaders, ExhaustedHeaders } }
    \cup { Response(429, NoHeaders, "empty") }

\* What the caller passes to _call_paginated.
ParamMaps ==
    { << >>,
      ("q" :> 5),
      ("page" :> 7) @@ ("pageSize" :> 10) @@ ("q" :> 5) }

Limits == { None } \cup { Some(n) : n \in 0..MaxLimit }

PagedInputs ==
    { [ request |-> [ method |-> "GET", url |-> "/parts", headers |-> h ],
        params |-> p, limit |-> l, progress |-> g ] :
        h \in { ("Accept" :> "application/json"), ("User-Agent" :> "caller/1.0") },
        p \in ParamMaps, l \in Limits, g \in BOOLEAN }

\* _call(client, req, schema) on a client with a retry budget of 1, run to
\* completion after session.send returned r: what it returns or raises, and
\* the cooldown and the snapshot it leaves on the client.
ExecutedWith(r, req, schema) ==
    IF is_server_error(r.status)
    THEN [ outcome |-> Raised("RetryExhaustedError"),
           cooldown |-> Backoff(cooldown), ratelimit |-> ratelimit ]
    ELSE IF r.status = TOO_MANY_REQUESTS
    THEN [ outcome |-> Raised("RetryExhaustedError"),
           cooldown |-> RetryAfter(r.headers), ratelimit |-> ratelimit ]
    ELSE [ outcome |->
               IF ~ is_success(r.status)
               THEN HTTPError(StatusErrorClass(r.status), r.status, r.reason,
                              req.method, req.url)
               ELSE IF schema = "None" \/ stream THEN Returned("ReturnNone")
               ELSE IF r.content = "empty" THEN Raised("EmptyBodyError")
               ELSE IF r.content = "invalid" THEN Raised("ResponseValidationError")
               ELSE Returned("ReturnValue"),
           cooldown |-> IF HasRateLimitHeaders(r.headers)
                        THEN _cooldown(_ratelimit(r.headers)) ELSE cooldown,
           ratelimit |-> IF HasRateLimitHeaders(r.headers)
                         THEN Some(_ratelimit(r.headers)) ELSE ratelimit ]

\* The _call of _call_paginated.
ExecutedOnce(r) == ExecutedWith(r, request, data)

\* The same with session.send raising.
ExecutedSendRaises ==
    [ outcome |-> Raised("TransportError"), cooldown |-> cooldown,
      ratelimit |-> ratelimit ]

PagedReturned(items, metadata) ==
    [ kind |-> "Return", items |-> items, metadata |-> metadata,
      error |-> NoOutcome ]

PagedRaised(error) ==
    [ kind |-> error.kind, items |-> << >>, metadata |-> None, error |-> error ]

PagedInit ==
    /\ \E s \in BOOLEAN : ClientInit(1, s)
    /\ CallIdle
    /\ streak = 0
    /\ RatesOff
    /\ ModeOff
    /\ PartialOff
    /\ TwoOff
    /\ ppc = "idle"
    /\ given = NoGiven
    /\ params = << >>
    /\ limit = None
    /\ progress = FALSE
    /\ results = << >>
    /\ envelope = None
    /\ collected = NoCollected
    /\ executed = << >>
    /\ fetched = << >>
    /\ metas = << >>
    /\ reported = << >>

\* A plausible bug: page and pageSize are written only when the caller's
\* parameters have none.
PagedBeginKeepsCallerPage ==
    /\ ppc = "idle"
    /\ \E in \in PagedInputs :
        /\ given' = [ request |-> in.request, params |-> in.params ]
        /\ request' = in.request
        /\ params' = in.params @@ ("page" :> 1) @@ ("pageSize" :> PageSize)
        /\ limit' = in.limit
        /\ progress' = in.progress
    /\ data' = "Schema"
    /\ results' = << >>
    /\ ppc' = "execute"
    /\ UNCHANGED << clientVars, pc, attempt, responses, slept, sent, outcome,
                    streak, ratesVars, modeVars, partialVars, twoVars, envelope, collected, executed, fetched, metas,
                    reported >>

\* Entry: results is empty, page and pageSize are written to request.params.
PagedBegin ==
    /\ ppc = "idle"
    /\ \E in \in PagedInputs :
        /\ given' = [ request |-> in.request, params |-> in.params ]
        /\ request' = in.request
        /\ params' = ("page" :> 1) @@ ("pageSize" :> PageSize) @@ in.params
        /\ limit' = in.limit
        /\ progress' = in.progress
    /\ data' = "Schema"
    /\ results' = << >>
    /\ ppc' = "execute"
    /\ UNCHANGED << clientVars, pc, attempt, responses, slept, sent, outcome,
                    streak, ratesVars, modeVars, partialVars, twoVars, envelope, collected, executed, fetched, metas,
                    reported >>

\* response = _call(client, request, PaginatedResponse[data, meta]) returns:
\* an envelope, or None from a streaming client.
PagedExecute ==
    /\ ppc = "execute"
    /\ \E r \in PagedResponses :
        LET res == ExecutedOnce(r) IN
        /\ res.outcome.kind \in { "ReturnNone", "ReturnValue" }
        /\ outcome' = res.outcome
        /\ cooldown' = res.cooldown
        /\ ratelimit' = res.ratelimit
        /\ IF res.outcome.kind = "ReturnValue"
           THEN \E e \in Envelopes(params["page"]) :
                    /\ envelope' = Some(e)
                    /\ fetched' = Append(fetched, e.data)
                    /\ metas' = Append(metas, e.metadata)
           ELSE /\ envelope' = None
                /\ UNCHANGED << fetched, metas >>
    /\ request' = [ request EXCEPT
                      !.headers = SetDefault(@, "User-Agent", DEFAULT_USER_AGENT) ]
    /\ executed' = Append(executed, params)
    /\ ppc' = "received"
    /\ UNCHANGED << given, retries, stream, pc, data, attempt, responses, slept, sent,
                    streak, ratesVars, modeVars, partialVars, twoVars, params, limit, progress, results,
                    collected, reported >>

\* A plausible bug: the error of _call is caught and the items accumulated so
\* far are returned.
PagedExecuteRaisesCaught ==
    /\ ppc = "execute"
    /\ \E res \in { ExecutedSendRaises } \cup { ExecutedOnce(r) : r \in PagedResponses } :
        /\ res.outcome.kind \notin { "ReturnNone", "ReturnValue" }
        /\ cooldown' = res.cooldown
        /\ ratelimit' = res.ratelimit
        /\ collected' = PagedReturned(results, None)
        /\ outcome' = res.outcome
    /\ request' = [ request EXCEPT
                      !.headers = SetDefault(@, "User-Agent", DEFAULT_USER_AGENT) ]
    /\ executed' = Append(executed, params)
    /\ ppc' = "done"
    /\ UNCHANGED << given, retries, stream, pc, data, attempt, responses, slept, sent,
                    streak, ratesVars, modeVars, partialVars, twoVars, params, limit, progress, results,
                    envelope, fetched, metas, reported >>

\* The same call raises: the error leaves _call_paginated.
PagedExecuteRaises ==
    /\ ppc = "execute"
    /\ \E res \in { ExecutedSendRaises } \cup { ExecutedOnce(r) : r \in PagedResponses } :
        /\ res.outcome.kind \notin { "ReturnNone", "ReturnValue" }
        /\ cooldown' = res.cooldown
        /\ ratelimit' = res.ratelimit
        /\ collected' = PagedRaised(res.outcome)
        /\ outcome' = res.outcome
    /\ request' = [ request EXCEPT
                      !.headers = SetDefault(@, "User-Agent", DEFAULT_USER_AGENT) ]
    /\ executed' = Append(executed, params)
    /\ ppc' = "done"
    /\ UNCHANGED << given, retries, stream, pc, data, attempt, responses, slept, sent,
                    streak, ratesVars, modeVars, partialVars, twoVars, params, limit, progress, results,
                    envelope, fetched, metas, reported >>

\* len(response.data) with response None.
PagedNoEnvelope ==
    /\ ppc = "received"
    /\ envelope = None
    /\ collected' = PagedRaised(Raised("AttributeError"))
    /\ ppc' = "done"
    /\ UNCHANGED << clientVars, callVars, streak, ratesVars, modeVars, partialVars, twoVars, given, params, limit,
                    progress, results, envelope, executed, fetched, metas, reported >>

\* A plausible bug: the loop is also left once the items accumulated reach
\* the total of the envelope.
PagedEmptyOrTotalReached ==
    /\ ppc = "received"
    /\ envelope # None
    /\ Len(envelope[1].data) = 0 \/ Len(results) + Len(envelope[1].data) >= envelope[1].total
    /\ ppc' = "return"
    /\ UNCHANGED << clientVars, callVars, streak, ratesVars, modeVars, partialVars, twoVars, given, params, limit,
                    progress, results, envelope, collected, executed, fetched, metas,
                    reported >>

\* len(response.data) == 0: break.
PagedEmpty ==
    /\ ppc = "received"
    /\ envelope # None
    /\ Len(envelope[1].data) = 0
    /\ ppc' = "return"
    /\ UNCHANGED << clientVars, callVars, streak, ratesVars, modeVars, partialVars, twoVars, given, params, limit,
                    progress, results, envelope, collected, executed, fetched, metas,
                    reported >>

\* A plausible bug: a page is put in front of the earlier ones.
PagedExtendInFront ==
    /\ ppc = "received"
    /\ envelope # None
    /\ Len(envelope[1].data) # 0
    /\ results' = envelope[1].data \o results
    /\ ppc' = "progress"
    /\ UNCHANGED << clientVars, callVars, streak, ratesVars, modeVars, partialVars, twoVars, given, params, limit,
                    progress, envelope, collected, executed, fetched, metas, reported >>

\* results.extend(response.data)
PagedExtend ==
    /\ ppc = "received"
    /\ envelope # None
    /\ Len(envelope[1].data) # 0
    /\ results' = results \o envelope[1].data
    /\ ppc' = "progress"
    /\ UNCHANGED << clientVars, callVars, streak, ratesVars, modeVars, partialVars, twoVars, given, params, limit,
                    progress, envelope, collected, executed, fetched, metas, reported >>

\* A plausible bug: the total of the envelope is reported as it is.
PagedProgressEnvelopeTotal ==
    /\ ppc = "progress"
    /\ IF ~ progress
       THEN /\ ppc' = "limit"
            /\ UNCHANGED << collected, reported >>
       ELSE /\ reported' = Append(reported, << Len(results), envelope[1].total >>)
            /\ ppc' = "limit"
            /\ UNCHANGED collected
    /\ UNCHANGED << clientVars, callVars, streak, ratesVars, modeVars, partialVars, twoVars, given, params, limit,
                    progress, results, envelope, executed, fetched, metas >>

\* if progress: progress(current=len(results),
\*                       total=min(limit or int("inf"), response.total))
\* int("inf") raises ValueError; it is evaluated when limit is None or 0.
PagedProgress ==
    /\ ppc = "progress"
    /\ IF ~ progress
       THEN /\ ppc' = "limit"
            /\ UNCHANGED << collected, reported >>
       ELSE IF limit = None \/ limit = Some(0)
       THEN /\ collected' = PagedRaised(Raised("ValueError"))
            /\ ppc' = "done"
            /\ UNCHANGED reported
       ELSE /\ reported' = Append(reported, << Len(results),
                                              Min2(limit[1], envelope[1].total) >>)
            /\ ppc' = "limit"
            /\ UNCHANGED collected
    /\ UNCHANGED << clientVars, callVars, streak, ratesVars, modeVars, partialVars, twoVars, given, params, limit,
                    progress, results, envelope, executed, fetched, metas >>

\* A plausible bug: the comparison with the limit is strict, a page is
\* requested with the limit already reached.
PagedLimitStrict ==
    /\ ppc = "limit"
    /\ limit # None
    /\ IF Len(results) > limit[1]
       THEN ppc' = "return" /\ UNCHANGED params
       ELSE /\ params' = [ params EXCEPT !["page"] = @ + 1 ]
            /\ ppc' = "execute"
    /\ UNCHANGED << clientVars, callVars, streak, ratesVars, modeVars, partialVars, twoVars, given, limit,
                    progress, results, envelope, collected, executed, fetched, metas,
                    reported >>

\* limit is not None and len(results) >= limit: break.
PagedLimit ==
    /\ ppc = "limit"
    /\ limit # None
    /\ Len(results) >= limit[1]
    /\ ppc' = "return"
    /\ UNCHANGED << clientVars, callVars, streak, ratesVars, modeVars, partialVars, twoVars, given, params, limit,
                    progress, results, envelope, collected, executed, fetched, metas,
                    reported >>

\* A plausible bug: the parameters are rebuilt for the next page, the
\* caller's other parameters are lost.
PagedNextPageDropsParams ==
    /\ ppc = "limit"
    /\ ~ (limit # None /\ Len(results) >= limit[1])
    /\ params' = ("page" :> params["page"] + 1) @@ ("pageSize" :> PageSize)
    /\ ppc' = "execute"
    /\ UNCHANGED << clientVars, callVars, streak, ratesVars, modeVars, partialVars, twoVars, given, limit, progress,
                    results, envelope, collected, executed, fetched, metas, reported >>

\* request.params["page"] += 1
PagedNextPage ==
    /\ ppc = "limit"
    /\ ~ (limit # None /\ Len(results) >= limit[1])
    /\ params' = [ params EXCEPT !["page"] = @ + 1 ]
    /\ ppc' = "execute"
    /\ UNCHANGED << clientVars, callVars, streak, ratesVars, modeVars, partialVars, twoVars, given, limit, progress,
                    results, envelope, collected, executed, fetched, metas, reported >>

\* A plausible bug: the list is returned without the slice.
PagedReturnWhole ==
    /\ ppc = "return"
    /\ collected' = PagedReturned(results, envelope[1].metadata)
    /\ ppc' = "done"
    /\ UNCHANGED << clientVars, callVars, streak, ratesVars, modeVars, partialVars, twoVars, given, params, limit,
                    progress, results, envelope, executed, fetched, metas, reported >>

\* A plausible bug: the metadata is taken from the first page.
PagedReturnFirstMetadata ==
    /\ ppc = "return"
    /\ collected' = PagedReturned(IF limit # None THEN Take(results, limit[1])
                                  ELSE results,
                                  metas[1])
    /\ ppc' = "done"
    /\ UNCHANGED << clientVars, callVars, streak, ratesVars, modeVars, partialVars, twoVars, given, params, limit,
                    progress, results, envelope, executed, fetched, metas, reported >>

\* return results[:limit] if limit is not None else results, response.metadata
PagedReturn ==
    /\ ppc = "return"
    /\ collected' = PagedReturned(IF limit # None THEN Take(results, limit[1])
                                  ELSE results,
                                  envelope[1].metadata)
    /\ ppc' = "done"
    /\ UNCHANGED << clientVars, callVars, streak, ratesVars, modeVars, partialVars, twoVars, given, params, limit,
                    progress, results, envelope, executed, fetched, metas, reported >>

PagedNext ==
    \/ PagedBegin
    \/ PagedExecute
    \/ PagedExecuteRaises
    \/ PagedNoEnvelope
    \/ PagedEmpty
    \/ PagedExtend
    \/ PagedProgress
    \/ PagedLimit
    \/ PagedNextPage
    \/ PagedReturn

SpecPaged == PagedInit /\ [][PagedNext]_vars

\* The loop of _call_paginated on its own, entered with one descriptor and
\* every limit, with and without a progress callback.
PagedLoopInputs ==
    { in \in PagedInputs :
        /\ in.request.headers = ("Accept" :> "application/json")
        /\ in.params = ("q" :> 5) }

\* The state at `while True`, the entry of _call_paginated done.
PagedLoopInit ==
    /\ \E s \in BOOLEAN : ClientInit(1, s)
    /\ pc = "idle"
    /\ attempt = 0
    /\ responses = << >>
    /\ slept = << >>
    /\ sent = 0
    /\ outcome = NoOutcome
    /\ streak = 0
    /\ RatesOff
    /\ ModeOff
    /\ PartialOff
    /\ TwoOff
    /\ \E in \in PagedLoopInputs :
        /\ given = [ request |-> in.request, params |-> in.params ]
        /\ request = in.request
        /\ params = ("page" :> 1) @@ ("pageSize" :> PageSize) @@ in.params
        /\ limit = in.limit
        /\ progress = in.progress
    /\ data = "Schema"
    /\ results = << >>
    /\ ppc = "execute"
    /\ envelope = None
    /\ collected = NoCollected
    /\ executed = << >>
    /\ fetched = << >>
    /\ metas = << >>
    /\ reported = << >>

PagedLoopNext ==
    \/ PagedExecute
    \/ PagedExecuteRaises
    \/ PagedNoEnvelope
    \/ PagedEmpty
    \/ PagedExtend
    \/ PagedProgress
    \/ PagedLimit
    \/ PagedNextPage
    \/ PagedReturn

\* _call_paginated is sequential code that runs on: a step that can be taken
\* is taken.
SpecPagedLoop ==
    PagedLoopInit /\ [][PagedLoopNext]_vars /\ WF_vars(PagedLoopNext)

\* ------------------------------------------------------------ Client modes
\* The methods of Client under @connected and under @authenticated.
ConnectedOps == { "disconnect", "health", "sign_in" }
AuthenticatedOps == { "sign_out", "me", "opt_in", "opt_out" }
Operations == { "connect" } \cup ConnectedOps \cup AuthenticatedOps

\* AccountData.consent: bool | None
Consents == { None, Some(TRUE), Some(FALSE) }

\* HealthCheck.status
HealthStatuses == { "ok", "error" }

\* An Account as client.user holds it.
Account(consent, username) == [ consent |-> consent, username |-> username ]

\* The truth value of self.user.consent.
Consenting(u) == u[1].consent = Some(TRUE)

\* Client.is_opted_in
is_opted_in == user # None /\ user[1].consent = Some(TRUE)

\* requests.Request(method=..., url=..., headers=...)
Request(method, url, headers) ==
    [ method |-> method, url |-> url, headers |-> headers ]

\* The final responses of the _call executions of the Client methods.
ModeResponses ==
    { r \in Responses : r.headers = NoHeaders /\ r.status \in { 200, 404, 500 } }

\* The ways _call(self, req, schema) can end on a client with a retry budget
\* of 1.
Executions(req, schema) ==
    { ExecutedSendRaises } \cup { ExecutedWith(r, req, schema) : r \in ModeResponses }

\* _call raised.
Failed(res) == res.outcome.kind \notin { "ReturnNone", "ReturnValue" }

\* The effect of one _call(self, req, schema) ending as res.
Executes(req, schema, res) ==
    /\ request' = [ req EXCEPT
                      !.headers = SetDefault(@, "User-Agent", DEFAULT_USER_AGENT) ]
    /\ data' = schema
    /\ outcome' = res.outcome
    /\ cooldown' = res.cooldown
    /\ ratelimit' = res.ratelimit
    /\ issued' = issued + 1

ModeReturned == [ kind |-> "Return", error |-> NoOutcome ]

ModeRaised(error) == [ kind |-> error.kind, error |-> error ]

\* What no Client method writes, and what a step without a _call leaves.
modeFrame == << retries, stream, pc, attempt, responses, slept, sent, streak,
                ratesVars, pagedVars, partialVars, twoVars, base, op, entry, health >>
callFrame == << cooldown, ratelimit, request, data, outcome, issued >>

ModeInitial ==
    /\ \E s \in BOOLEAN : ClientInit(1, s)
    /\ \E b \in { None, Some("https://api.registry.igem.org/v1") } : ModeInit(b)
    /\ CallIdle
    /\ streak = 0
    /\ RatesOff
    /\ PagedOff
    /\ PartialOff
    /\ TwoOff
    /\ op = ""
    /\ cpc = "idle"
    /\ result = NoResult
    /\ entry = [ mode |-> "NONE", user |-> None, cooldown |-> 0, ratelimit |-> None ]
    /\ issued = 0
    /\ health = None

\* A method of the client is called.
ModeCall ==
    /\ cpc = "idle"
    /\ \E o \in Operations :
        /\ op' = o
        /\ cpc' = IF o = "connect" THEN "connect" ELSE "guard"
    /\ entry' = Entered
    /\ issued' = 0
    /\ health' = None
    /\ result' = NoResult
    /\ UNCHANGED << retries, stream, pc, attempt, responses, slept, sent, streak,
                    ratesVars, pagedVars, partialVars, twoVars, base, cooldown, ratelimit, request,
                    data, outcome, mode, user >>

\* @connected: NotConnectedError when client.is_none.
ModeGuardConnected ==
    /\ cpc = "guard"
    /\ op \in ConnectedOps
    /\ IF mode = "NONE"
       THEN /\ result' = ModeRaised(Raised("NotConnectedError"))
            /\ cpc' = "idle"
       ELSE /\ cpc' = op
            /\ UNCHANGED result
    /\ UNCHANGED << modeFrame, callFrame, mode, user >>

\* @authenticated raising only on a client that is not connected.
ModeGuardAuthenticatedAsConnected ==
    /\ cpc = "guard"
    /\ op \in AuthenticatedOps
    /\ IF mode = "NONE"
       THEN /\ result' = ModeRaised(Raised("NotAuthenticatedError"))
            /\ cpc' = "idle"
       ELSE /\ cpc' = op
            /\ UNCHANGED result
    /\ UNCHANGED << modeFrame, callFrame, mode, user >>

\* @authenticated: NotAuthenticatedError when not client.is_auth.
ModeGuardAuthenticated ==
    /\ cpc = "guard"
    /\ op \in AuthenticatedOps
    /\ IF mode # "AUTH"
       THEN /\ result' = ModeRaised(Raised("NotAuthenticatedError"))
            /\ cpc' = "idle"
       ELSE /\ cpc' = op
            /\ UNCHANGED result
    /\ UNCHANGED << modeFrame, callFrame, mode, user >>

\* connect: the checks before the health request.
ModeConnect ==
    /\ cpc = "connect"
    /\ IF mode # "NONE" \/ base = None
       THEN /\ result' = ModeRaised(Raised("ClientConnectionError"))
            /\ cpc' = "idle"
       ELSE /\ cpc' = "connect_health"
            /\ UNCHANGED result
    /\ UNCHANGED << modeFrame, callFrame, mode, user >>

\* connect without the check of health.status.
ModeConnectHealthAnyStatus ==
    /\ cpc = "connect_health"
    /\ \E res \in Executions(Request("GET", "/health", NoHeaders), "Schema") :
        /\ Executes(Request("GET", "/health", NoHeaders), "Schema", res)
        /\ IF Failed(res)
           THEN /\ result' = ModeRaised(res.outcome)
                /\ UNCHANGED << mode, health >>
           ELSE IF res.outcome.kind = "ReturnNone"
           THEN /\ result' = ModeRaised(Raised("AttributeError"))
                /\ UNCHANGED << mode, health >>
           ELSE \E checked \in HealthStatuses :
                    /\ health' = Some(checked)
                    /\ mode' = "ANON"
                    /\ result' = ModeReturned
    /\ cpc' = "idle"
    /\ UNCHANGED << retries, stream, pc, attempt, responses, slept, sent, streak,
                    ratesVars, pagedVars, partialVars, twoVars, base, op, entry, user >>

\* connect: health = inspect.unwrap(Client.health)(self), the status check
\* and the change of mode.
ModeConnectHealth ==
    /\ cpc = "connect_health"
    /\ \E res \in Executions(Request("GET", "/health", NoHeaders), "Schema") :
        /\ Executes(Request("GET", "/health", NoHeaders), "Schema", res)
        /\ IF Failed(res)
           THEN /\ result' = ModeRaised(res.outcome)
                /\ UNCHANGED << mode, health >>
           ELSE IF res.outcome.kind = "ReturnNone"
           THEN /\ result' = ModeRaised(Raised("AttributeError"))
                /\ UNCHANGED << mode, health >>
           ELSE \E checked \in HealthStatuses :
                    /\ health' = Some(checked)
                    /\ IF checked # "ok"
                       THEN /\ result' = ModeRaised(Raised("ClientConnectionError"))
                            /\ UNCHANGED mode
                       ELSE /\ mode' = "ANON"
                            /\ result' = ModeReturned
    /\ cpc' = "idle"
    /\ UNCHANGED << retries, stream, pc, attempt, responses, slept, sent, streak,
                    ratesVars, pagedVars, partialVars, twoVars, base, op, entry, user >>

\* A plausible bug: disconnect leaves the user of the session in place.
ModeDisconnectKeepsUser ==
    /\ cpc = "disconnect"
    /\ mode' = "NONE"
    /\ result' = ModeReturned
    /\ cpc' = "idle"
    /\ UNCHANGED << modeFrame, callFrame, user >>

\* disconnect
ModeDisconnect ==
    /\ cpc = "disconnect"
    /\ user' = None
    /\ mode' = "NONE"
    /\ result' = ModeReturned
    /\ cpc' = "idle"
    /\ UNCHANGED << modeFrame, callFrame >>

\* health
ModeHealth ==
    /\ cpc = "health"
    /\ \E res \in Executions(Request("GET", "/health", NoHeaders), "Schema") :
        /\ Executes(Request("GET", "/health", NoHeaders), "Schema", res)
        /\ result' = IF Failed(res) THEN ModeRaised(res.outcome) ELSE ModeReturned
    /\ cpc' = "idle"
    /\ UNCHANGED << modeFrame, mode, user >>

\* sign_in: POST {instance}/auth/sign-in
ModeSignInPost ==
    /\ cpc = "sign_in"
    /\ LET req == Request("POST", "/auth/sign-in",
                          ("Content-Type" :> "application/json")) IN
       \E res \in Executions(req, "None") :
        /\ Executes(req, "None", res)
        /\ IF Failed(res)
           THEN /\ result' = ModeRaised(res.outcome)
                /\ cpc' = "idle"
           ELSE /\ cpc' = "sign_in_login"
                /\ UNCHANGED result
    /\ UNCHANGED << modeFrame, mode, user >>

\* sign_in: GET {base}/auth/oauth/default/login
ModeSignInLogin ==
    /\ cpc = "sign_in_login"
    /\ LET req == Request("GET", "/auth/oauth/default/login", NoHeaders) IN
       \E res \in Executions(req, "None") :
        /\ Executes(req, "None", res)
        /\ IF Failed(res)
           THEN /\ result' = ModeRaised(res.outcome)
                /\ cpc' = "idle"
           ELSE /\ cpc' = "sign_in_me"
                /\ UNCHANGED result
    /\ UNCHANGED << modeFrame, mode, user >>

\* sign_in: self.user = inspect.unwrap(Client.me)(self), set_username and the
\* change of mode.  Account.from_data(self, None) raises AttributeError.
ModeSignInMe ==
    /\ cpc = "sign_in_me"
    /\ LET req == Request("GET", "/auth/me", NoHeaders) IN
       \E res \in Executions(req, "Schema") :
        /\ Executes(req, "Schema", res)
        /\ IF Failed(res)
           THEN /\ result' = ModeRaised(res.outcome)
                /\ UNCHANGED << mode, user >>
           ELSE IF res.outcome.kind = "ReturnNone"
           THEN /\ result' = ModeRaised(Raised("AttributeError"))
                /\ UNCHANGED << mode, user >>
           ELSE \E c \in Consents :
                    /\ user' = Some(Account(c, "username"))
                    /\ mode' = "AUTH"
                    /\ result' = ModeReturned
    /\ cpc' = "idle"
    /\ UNCHANGED modeFrame

\* sign_out clearing the user before the request is known to have succeeded.
ModeSignOutClearsFirst ==
    /\ cpc = "sign_out"
    /\ IF user = None
       THEN /\ result' = ModeRaised(Raised("NotAuthenticatedError"))
            /\ UNCHANGED << callFrame, mode, user >>
       ELSE LET req == Request("POST", "/auth/sign-out", NoHeaders) IN
            \E res \in Executions(req, "None") :
                /\ Executes(req, "None", res)
                /\ IF Failed(res)
                   THEN /\ result' = ModeRaised(res.outcome)
                        /\ user' = None
                        /\ UNCHANGED mode
                   ELSE /\ user' = None
                        /\ mode' = "ANON"
                        /\ result' = ModeReturned
    /\ cpc' = "idle"
    /\ UNCHANGED modeFrame

\* sign_out
ModeSignOut ==
    /\ cpc = "sign_out"
    /\ IF user = None
       THEN /\ result' = ModeRaised(Raised("NotAuthenticatedError"))
            /\ UNCHANGED << callFrame, mode, user >>
       ELSE LET req == Request("POST", "/auth/sign-out", NoHeaders) IN
            \E res \in Executions(req, "None") :
                /\ Executes(req, "None", res)
                /\ IF Failed(res)
                   THEN /\ result' = ModeRaised(res.outcome)
                        /\ UNCHANGED << mode, user >>
                   ELSE /\ user' = None
                        /\ mode' = "ANON"
                        /\ result' = ModeReturned
    /\ cpc' = "idle"
    /\ UNCHANGED modeFrame

\* me
ModeMe ==
    /\ cpc = "me"
    /\ LET req == Request("GET", "/auth/me", NoHeaders) IN
       \E res \in Executions(req, "Schema") :
        /\ Executes(req, "Schema", res)
        /\ result' = IF Failed(res) THEN ModeRaised(res.outcome)
                     ELSE IF res.outcome.kind = "ReturnNone"
                     THEN ModeRaised(Raised("AttributeError"))
                     ELSE ModeReturned
    /\ cpc' = "idle"
    /\ UNCHANGED << modeFrame, mode, user >>

\* opt_in recording the consent whether or not the request succeeded.
ModeOptInFlipsFirst ==
    /\ cpc = "opt_in"
    /\ IF user = None
       THEN /\ result' = ModeRaised(Raised("NotAuthenticatedError"))
            /\ UNCHANGED << callFrame, user >>
       ELSE IF Consenting(user)
       THEN /\ result' = ModeReturned
            /\ UNCHANGED << callFrame, user >>
       ELSE LET req == Request("POST", "/accounts/opt-in", NoHeaders) IN
            \E res \in Executions(req, "None") :
                /\ Executes(req, "None", res)
                /\ IF Failed(res)
                   THEN /\ result' = ModeRaised(res.outcome)
                        /\ user' = Some([ user[1] EXCEPT !.consent = Some(TRUE) ])
                   ELSE /\ user' = Some([ user[1] EXCEPT !.consent = Some(TRUE) ])
                        /\ result' = ModeReturned
    /\ cpc' = "idle"
    /\ UNCHANGED << modeFrame, mode >>

\* opt_in
ModeOptIn ==
    /\ cpc = "opt_in"
    /\ IF user = None
       THEN /\ result' = ModeRaised(Raised("NotAuthenticatedError"))
            /\ UNCHANGED << callFrame, user >>
       ELSE IF Consenting(user)
       THEN /\ result' = ModeReturned
            /\ UNCHANGED << callFrame, user >>
       ELSE LET req == Request("POST", "/accounts/opt-in", NoHeaders) IN
            \E res \in Executions(req, "None") :
                /\ Executes(req, "None", res)
                /\ IF Failed(res)
                   THEN /\ result' = ModeRaised(res.outcome)
                        /\ UNCHANGED user
                   ELSE /\ user' = Some([ user[1] EXCEPT !.consent = Some(TRUE) ])
                        /\ result' = ModeReturned
    /\ cpc' = "idle"
    /\ UNCHANGED << modeFrame, mode >>

\* opt_out
ModeOptOut ==
    /\ cpc = "opt_out"
    /\ IF user = None
       THEN /\ result' = ModeRaised(Raised("NotAuthenticatedError"))
            /\ UNCHANGED << callFrame, user >>
       ELSE IF ~ Consenting(user)
       THEN /\ result' = ModeReturned
            /\ UNCHANGED << callFrame, user >>
       ELSE LET req == Request("POST", "/accounts/opt-out", NoHeaders) IN
            \E res \in Executions(req, "None") :
                /\ Executes(req, "None", res)
                /\ IF Failed(res)
                   THEN /\ result' = ModeRaised(res.outcome)
                        /\ UNCHANGED user
                   ELSE /\ user' = Some([ user[1] EXCEPT !.consent = Some(FALSE) ])
                        /\ result' = ModeReturned
    /\ cpc' = "idle"
    /\ UNCHANGED << modeFrame, mode >>

ModeNext ==
    \/ ModeCall
    \/ ModeGuardConnected
    \/ ModeGuardAuthenticated
    \/ ModeConnect
    \/ ModeConnectHealth
    \/ ModeDisconnect
    \/ ModeHealth
    \/ ModeSignInPost
    \/ ModeSignInLogin
    \/ ModeSignInMe
    \/ ModeSignOut
    \/ ModeMe
    \/ ModeOptIn
    \/ ModeOptOut

SpecModes == ModeInitial /\ [][ModeNext]_vars

\* ------------------------------------------------------------ partial
\* The class decorator partial of the types submodule, as its tests use it,
\* over models whose fields are declared with pydantic's Field.

\* Python values: None, an int, a str (the sequence of its characters).
NoneValue == [ type |-> "NoneType", int |-> 0, str |-> << >> ]
IntValue(n) == [ type |-> "int", int |-> n, str |-> << >> ]
StrValue(t) == [ type |-> "str", int |-> 0, str |-> t ]

\* Field(default, ge=..., min_length=...) under an annotation, T or T | None.
\* required is Field(...); the constraint is ge for an int and min_length
\* for a str.
FieldInfo(annotation, optional, required, default, constraint) ==
    [ annotation |-> annotation, optional |-> optional, required |-> required,
      default |-> default, constraint |-> constraint ]

\* The declarations of field1: int and field2: str in the tests' models.
FieldInfos(f) ==
    IF f = "field1"
    THEN { FieldInfo("int", FALSE, TRUE, NoneValue, c) : c \in { None, Some(0) } }
         \cup { FieldInfo("int", FALSE, FALSE, IntValue(1), c) : c \in { None, Some(0) } }
    ELSE { FieldInfo("str", FALSE, TRUE, NoneValue, c) : c \in { None, Some(3) } }
         \cup { FieldInfo("str", TRUE, FALSE, NoneValue, c) : c \in { None, Some(3) } }

\* Model classes: model_fields, by field name.
Models ==
    UNION { { m \in [ names -> UNION { FieldInfos(f) : f \in names } ] :
                \A f \in names : m[f] \in FieldInfos(f) } :
            names \in SUBSET { "field1", "field2" } \ { {} } }

\* The values the tests pass.
Values ==
    { NoneValue, IntValue(-1), IntValue(1), StrValue(<< "a", "b" >>),
      StrValue(<< "a", "b", "c" >>) }

\* The keyword arguments a model can be called with.
Kwargs(model) == UNION { [ names -> Values ] : names \in SUBSET DOMAIN model }

\* pydantic's validation of one provided value against a field.
Valid(info, value) ==
    IF value.type = "NoneType" THEN info.optional
    ELSE IF value.type # info.annotation THEN FALSE
    ELSE IF info.constraint = None THEN TRUE
    ELSE IF info.annotation = "int" THEN value.int >= info.constraint[1]
    ELSE Len(value.str) >= info.constraint[1]

ValidationError == [ kind |-> "ValidationError", fields |-> << >> ]

\* Model(**kw): a ValidationError or the instance, defaults filled in.
Construct(model, kw) ==
    IF \/ \E f \in DOMAIN model \ DOMAIN kw : model[f].required
       \/ \E f \in DOMAIN kw : ~ Valid(model[f], kw[f])
    THEN ValidationError
    ELSE [ kind |-> "instance",
           fields |-> [ f \in DOMAIN model |->
                          IF f \in DOMAIN kw THEN kw[f] ELSE model[f].default ] ]

\* partial dropping the declared constraints with the annotation.
partialBare(model) ==
    [ f \in DOMAIN model |->
        FieldInfo(model[f].annotation, TRUE, FALSE, NoneValue, None) ]

\* partial(model): every field T | None with default None, the rest of its
\* declaration kept.
partial(model) ==
    [ f \in DOMAIN model |->
        [ model[f] EXCEPT !.optional = TRUE, !.required = FALSE,
                          !.default = NoneValue ] ]

PartialInit ==
    /\ \E s \in BOOLEAN : ClientInit(1, s)
    /\ CallIdle
    /\ streak = 0
    /\ RatesOff
    /\ PagedOff
    /\ ModeOff
    /\ TwoOff
    /\ original \in Models
    /\ derived = << >>
    /\ kwargs \in Kwargs(original)
    /\ instance = NoInstance
    /\ tpc = "defined"

\* @partial class PartialModel(OriginalModel): ...
PartialApply ==
    /\ tpc = "defined"
    /\ derived' = partial(original)
    /\ tpc' = "applied"
    /\ UNCHANGED << clientVars, callVars, streak, ratesVars, pagedVars, modeVars,
                    twoVars, original, kwargs, instance >>

\* PartialModel(**kwargs)
PartialConstruct ==
    /\ tpc = "applied"
    /\ instance' = Construct(derived, kwargs)
    /\ tpc' = "constructed"
    /\ UNCHANGED << clientVars, callVars, streak, ratesVars, pagedVars, modeVars,
                    twoVars, original, derived, kwargs >>

PartialNext ==
    \/ PartialApply
    \/ PartialConstruct

SpecPartial == PartialInit /\ [][PartialNext]_vars

\* ------------------------------------------- _call from two threads at once
\* Two threads run _call on the same Client, with no lock: client.cooldown
\* and client.ratelimit are shared, everything else in _call is local.  A
\* step is one read or one write of a shared attribute.

\* The retry budget of the shared client.
TwoRetries == 2

\* The responses the server gives to the two calls.
TwoResponses ==
    { Response(500, NoHeaders, "empty"),
      Response(429, RetryHeader("short") :> 5, "empty"),
      Response(200, NoHeaders, "valid"),
      Response(200, OpenHeaders, "valid"),
      Response(404, ExhaustedHeaders, "invalid") }

\* The request of both calls.
TwoRequest == [ method |-> "GET", url |-> "/parts", headers |-> NoHeaders ]

\* The other thread notices nothing of a write of client.cooldown; the
\* history field hit of a thread waiting to sleep the cooldown it has set
\* records that the attribute was written since.
Disturbed(t) ==
    [ u \in Threads |->
        IF u # t /\ calls[u].pc = "loop" /\ calls[u].owed >= 0
        THEN [ calls[u] EXCEPT !.hit = TRUE ]
        ELSE calls[u] ]

\* Some thread other than t is inside _call.
OthersInCall(t) ==
    \E u \in Threads \ { t } : calls[u].pc \notin { "idle", "done" }

\* What no step of the two threads writes.
twoFrame == << retries, stream, callVars, streak, ratesVars, pagedVars, modeVars,
               partialVars >>

TwoInit ==
    /\ ClientInit(TwoRetries, FALSE)
    /\ CallIdle
    /\ streak = 0
    /\ RatesOff
    /\ PagedOff
    /\ ModeOff
    /\ PartialOff
    /\ TwoOff

\* Thread t calls _call.
TwoBegin(t) ==
    /\ calls[t].pc = "idle"
    /\ calls' = [ calls EXCEPT ![t].pc = "loop" ]
    /\ overlap' = (overlap \/ OthersInCall(t))
    /\ UNCHANGED << twoFrame, cooldown, ratelimit >>

\* A plausible bug: the cooldown slept is a copy read earlier in the call,
\* not the attribute as it now is.
TwoAttemptSleepsCopy(t) ==
    /\ calls[t].pc = "loop"
    /\ calls[t].attempt < retries
    /\ calls' = [ calls EXCEPT ![t].slept = calls[t].read, ![t].pc = "send" ]
    /\ UNCHANGED << twoFrame, cooldown, ratelimit, overlap >>

\* time.sleep(client.cooldown) of one more iteration.
TwoAttempt(t) ==
    /\ calls[t].pc = "loop"
    /\ calls[t].attempt < retries
    /\ calls' = [ calls EXCEPT ![t].slept = cooldown, ![t].pc = "send" ]
    /\ UNCHANGED << twoFrame, cooldown, ratelimit, overlap >>

\* The else branch of the loop.
TwoExhausted(t) ==
    /\ calls[t].pc = "loop"
    /\ ~ (calls[t].attempt < retries)
    /\ calls' = [ calls EXCEPT ![t].outcome = "RetryExhaustedError",
                               ![t].pc = "done" ]
    /\ UNCHANGED << twoFrame, cooldown, ratelimit, overlap >>

\* session.send returns a response.
TwoSend(t) ==
    /\ calls[t].pc = "send"
    /\ \E r \in TwoResponses :
        calls' = [ calls EXCEPT ![t].resp = r, ![t].pc = "classify" ]
    /\ UNCHANGED << twoFrame, cooldown, ratelimit, overlap >>

\* session.send raises: TransportError.
TwoSendRaises(t) ==
    /\ calls[t].pc = "send"
    /\ calls' = [ calls EXCEPT ![t].outcome = "TransportError", ![t].pc = "done" ]
    /\ UNCHANGED << twoFrame, cooldown, ratelimit, overlap >>

\* status.is_server_error: client.cooldown is read ...
TwoServerErrorRead(t) ==
    /\ calls[t].pc = "classify"
    /\ is_server_error(calls[t].resp.status)
    /\ calls' = [ calls EXCEPT ![t].read = cooldown, ![t].pc = "backoff" ]
    /\ UNCHANGED << twoFrame, cooldown, ratelimit, overlap >>

\* ... and min((read or 1) * 2, 60) is written to it; continue.
TwoServerErrorWrite(t) ==
    /\ calls[t].pc = "backoff"
    /\ cooldown' = Backoff(calls[t].read)
    /\ calls' = [ Disturbed(t) EXCEPT ![t].owed = Backoff(calls[t].read),
                                      ![t].hit = FALSE,
                                      ![t].attempt = @ + 1,
                                      ![t].pc = "loop" ]
    /\ UNCHANGED << twoFrame, ratelimit, overlap >>

\* status == TOO_MANY_REQUESTS: the cooldown is written; continue.
TwoTooManyRequests(t) ==
    /\ calls[t].pc = "classify"
    /\ calls[t].resp.status = TOO_MANY_REQUESTS
    /\ cooldown' = RetryAfter(calls[t].resp.headers)
    /\ calls' = [ Disturbed(t) EXCEPT ![t].owed = RetryAfter(calls[t].resp.headers),
                                      ![t].hit = FALSE,
                                      ![t].attempt = @ + 1,
                                      ![t].pc = "loop" ]
    /\ UNCHANGED << twoFrame, ratelimit, overlap >>

\* Any other status: break.
TwoBreak(t) ==
    /\ calls[t].pc = "classify"
    /\ ~ is_server_error(calls[t].resp.status)
    /\ calls[t].resp.status # TOO_MANY_REQUESTS
    /\ calls' = [ calls EXCEPT ![t].pc = "rate" ]
    /\ UNCHANGED << twoFrame, cooldown, ratelimit, overlap >>

\* client.ratelimit = _ratelimit(response.headers), with all nine headers.
TwoRateLimit(t) ==
    /\ calls[t].pc = "rate"
    /\ IF HasRateLimitHeaders(calls[t].resp.headers)
       THEN /\ ratelimit' = Some(_ratelimit(calls[t].resp.headers))
            /\ calls' = [ calls EXCEPT ![t].pc = "cool" ]
       ELSE /\ calls' = [ calls EXCEPT ![t].pc = "status" ]
            /\ UNCHANGED ratelimit
    /\ UNCHANGED << twoFrame, cooldown, overlap >>

\* client.cooldown = _cooldown(client.ratelimit): the shared snapshot is
\* read back.
TwoCooldown(t) ==
    /\ calls[t].pc = "cool"
    /\ cooldown' = _cooldown(ratelimit[1])
    /\ calls' = [ Disturbed(t) EXCEPT ![t].pc = "status" ]
    /\ UNCHANGED << twoFrame, ratelimit, overlap >>

\* The status check and the body: the call returns or raises.
TwoStatus(t) ==
    /\ calls[t].pc = "status"
    /\ calls' = [ calls EXCEPT
                    ![t].outcome =
                        ExecutedWith(calls[t].resp, TwoRequest, "Schema").outcome.kind,
                    ![t].pc = "done" ]
    /\ UNCHANGED << twoFrame, cooldown, ratelimit, overlap >>

TwoNext ==
    \E t \in Threads :
        \/ TwoBegin(t)
        \/ TwoAttempt(t)
        \/ TwoExhausted(t)
        \/ TwoSend(t)
        \/ TwoSendRaises(t)
        \/ TwoServerErrorRead(t)
        \/ TwoServerErrorWrite(t)
        \/ TwoTooManyRequests(t)
        \/ TwoBreak(t)
        \/ TwoRateLimit(t)
        \/ TwoCooldown(t)
        \/ TwoStatus(t)

SpecTwo == TwoInit /\ [][TwoNext]_vars

\* ------------------------------------------------------------------ claims
\* A status on which the loop continues.
Retried(st) == (500 <= st /\ st <= 599) \/ st = 429

Statuses == [ i \in 1..Len(responses) |-> responses[i].status ]

ReturnedNormally == outcome.kind \in { "ReturnNone", "ReturnValue" }

\* The value of a retry-after header, 1 when the header is absent.
RetryValue(headers, window) ==
    IF RetryHeader(window) \in DOMAIN headers THEN headers[RetryHeader(window)] ELSE 1

\* The cooldown in force once response i of the current call has been handled
\* by the loop: what the next attempt slept, or the cooldown itself while no
\* further attempt has slept.  Defined when HandledInLoop(i).
CooldownAfter(i) == IF i < Len(slept) THEN slept[i + 1] ELSE cooldown

HandledInLoop(i) ==
    i < Len(responses) \/ pc = "loop" \/ outcome.kind = "RetryExhaustedError"

\* C1: with a retry budget n >= 1, a call whose n attempts all received a 5xx
\* or a 429 response ends with RetryExhaustedError after exactly n requests,
\* never with ServerError or RateLimitError.
C1_RetryExhausted ==
    ( /\ pc = "done"
      /\ retries >= 1
      /\ Len(responses) = retries
      /\ \A i \in 1..Len(responses) : Retried(responses[i].status) )
    => ( /\ outcome.kind = "RetryExhaustedError"
         /\ sent = retries )

C1_Witness ==
    /\ pc = "done"
    /\ retries = 2
    /\ Statuses = << 503, 429 >>
    /\ outcome.kind = "RetryExhaustedError"
    /\ sent = 2

\* C2: a call that ended on a response with a 4xx status other than 429 raised
\* ClientError carrying the status code, reason, method and URL.
C2_ClientError ==
    ( /\ pc = "done"
      /\ responses # << >>
      /\ 400 <= status /\ status <= 499 /\ status # 429 )
    => ( /\ IsInstance(outcome.kind, "ClientError")
         /\ outcome.status = status
         /\ outcome.reason = response.reason
         /\ outcome.method = request.method
         /\ outcome.url = request.url )

\* C3: within one call a further request is sent only after a 5xx or a 429
\* response: a response with any other status is the last one of the call, and
\* the call neither sleeps nor sends again after it, whatever the body.
C3_RetryOnlyOn5xx429 ==
    \A i \in 1..Len(responses) :
        ~ Retried(responses[i].status)
        => ( /\ i = Len(responses)
             /\ sent = i
             /\ Len(slept) = i
             /\ pc \in { "classify", "rate", "status", "done" } )

C3_Witness ==
    /\ pc = "done"
    /\ retries = 3
    /\ Statuses = << 429, 200 >>
    /\ response.content = "empty"
    /\ outcome.kind = "EmptyBodyError"
    /\ sent = 2

\* C4: when session.send raises at an attempt, the call raises TransportError
\* at that attempt without changing the cooldown or the rate-limit snapshot,
\* and no further request is sent, whatever retry budget remains.
C4_TransportError ==
    /\ [][ pc = "except"
           => ( /\ pc' = "done"
                /\ outcome'.kind = "TransportError"
                /\ sent' = sent
                /\ cooldown' = cooldown
                /\ ratelimit' = ratelimit ) ]_vars
    /\ [] ( outcome.kind = "TransportError"
            => ( /\ pc = "done"
                 /\ sent = Len(responses) + 1
                 /\ Len(slept) = sent
                 /\ cooldown = slept[Len(slept)] ) )

C4_Witness ==
    /\ pc = "done"
    /\ outcome.kind = "TransportError"
    /\ retries = 3
    /\ Statuses = << 503 >>
    /\ sent = 2
    /\ cooldown = 2

\* C5: with a retry budget of 3, the responses 500, 500, 200 and a cooldown of
\* 0 at the first attempt, the call succeeds on the third attempt, having slept
\* at least 1 before attempt 2 and at least 2 before attempt 3.
C5_BackoffScenario ==
    ( /\ pc = "done"
      /\ retries = 3
      /\ Statuses = << 500, 500, 200 >>
      /\ slept[1] = 0 )
    => ( /\ sent = 3
         /\ Len(slept) = 3
         /\ slept[2] >= 1
         /\ slept[3] >= 2
         /\ outcome.kind \notin { "RetryExhaustedError", "TransportError", "HTTPError",
                                  "ClientError", "ServerError", "RateLimitError" }
         /\ (response.content = "valid" => ReturnedNormally) )

C5_Witness ==
    /\ pc = "done"
    /\ retries = 3
    /\ Statuses = << 500, 500, 200 >>
    /\ slept = << 0, 2, 4 >>
    /\ outcome.kind = "ReturnValue"

\* C6: a 5xx response handled in the loop replaces the cooldown c by
\* min(2 * max(c, 1), 60); after k 5xx responses in a row from a cooldown of 0
\* the cooldown is min(2^k, 60).
C6_Backoff ==
    /\ \A i \in 1..Len(responses) :
        ( /\ 500 <= responses[i].status /\ responses[i].status <= 599
          /\ HandledInLoop(i) )
        => LET c == slept[i]
               floored == IF c >= 1 THEN c ELSE 1
           IN  CooldownAfter(i) = (IF 2 * floored <= 60 THEN 2 * floored ELSE 60)
    /\ streak >= 1 => cooldown = (IF 2 ^ streak <= 60 THEN 2 ^ streak ELSE 60)

C6_Witness ==
    /\ pc = "loop"
    /\ streak = 6
    /\ cooldown = 60
    /\ slept[Len(slept)] = 32

\* C7: a 429 response handled in the loop sets the cooldown to the largest of
\* the three retry-after headers, each counted as 1 when absent; with the
\* responses 429 (retry-after-short = 5), 200 and a retry budget of at least 2
\* the second attempt sleeps at least 5 and the call succeeds.
C7_RetryAfter ==
    /\ \A i \in 1..Len(responses) :
        (responses[i].status = 429 /\ HandledInLoop(i))
        => LET h == responses[i].headers
               c == CooldownAfter(i)
           IN  /\ \A w \in { "short", "medium", "large" } : c >= RetryValue(h, w)
               /\ \E w \in { "short", "medium", "large" } : c = RetryValue(h, w)
    /\ ( /\ pc = "done"
         /\ retries >= 2
         /\ Statuses = << 429, 200 >>
         /\ RetryHeader("short") \in DOMAIN responses[1].headers
         /\ responses[1].headers[RetryHeader("short")] = 5 )
       => ( /\ sent = 2
            /\ slept[2] >= 5
            /\ outcome.kind \notin { "RetryExhaustedError", "TransportError",
                                     "HTTPError", "ClientError", "ServerError",
                                     "RateLimitError" }
            /\ (response.content = "valid" => ReturnedNormally) )

C7_Witness ==
    /\ pc = "done"
    /\ retries = 2
    /\ Statuses = << 429, 200 >>
    /\ DOMAIN responses[1].headers = { RetryHeader("short") }
    /\ responses[1].headers[RetryHeader("short")] = 5
    /\ slept[2] = 5
    /\ outcome.kind = "ReturnValue"

\* C8: with a retry budget of 0 the call sends its request and reports a 5xx
\* response as ServerError and a 429 response as RateLimitError, each carrying
\* the status code, reason, method and URL.
C8_ZeroRetries ==
    (pc = "done" /\ retries = 0 /\ outcome.kind # "TransportError")
    => ( /\ Len(responses) = 1
         /\ sent = 1
         /\ (500 <= status /\ status <= 599) => outcome.kind = "ServerError"
         /\ status = 429 => outcome.kind = "RateLimitError"
         /\ Retried(status)
            => ( /\ outcome.status = status
                 /\ outcome.reason = response.reason
                 /\ outcome.method = request.method
                 /\ outcome.url = request.url ) )

\* C9: cooldown(snapshot) is the largest resetSeconds[i] over the windows i with
\* remaining[i] = 0, and 0 when every window has remaining > 0.
C9_Cooldown ==
    rpc = "cooled"
    => LET rl == snap[1]
           exhausted == { i \in 1..3 : rl.balance[i] = 0 }
       IN  /\ \A i \in exhausted : wait >= rl.reset[i]
           /\ exhausted # {} => \E i \in exhausted : wait = rl.reset[i]
           /\ exhausted = {} => wait = 0

C9_Witness ==
    /\ rpc = "cooled"
    /\ snap[1].balance = << 0, 1, 0 >>
    /\ snap[1].reset = << 0, 2, 1 >>
    /\ wait = 1

\* The default triplet of a metric and the triplet a snapshot holds for it.
DefaultTriplet(metric) ==
    CASE metric = "remaining" -> << 0, 0, 0 >>
      [] metric = "reset" -> << 5, 60, 600 >>
      [] metric = "limit" -> << 5, 60, 200 >>

Triplet(rl, metric) ==
    CASE metric = "remaining" -> rl.balance
      [] metric = "reset" -> rl.reset
      [] metric = "limit" -> rl.quota

\* The three headers of a metric are present, none with the value -1.
MetricGiven(headers, metric) ==
    \A w \in { "short", "medium", "large" } :
        /\ RateHeader(metric, w) \in DOMAIN headers
        /\ headers[RateHeader(metric, w)] # -1

\* C10 as claimed: for a header set lacking one of the nine rate-limit
\* headers, ratelimit gives no information: no snapshot, or one in which no
\* triplet comes from the headers.
C10_NoInformation ==
    (rpc # "headers" /\ ~ HasRateLimitHeaders(hdrs))
    => ( \/ snap = None
         \/ \A m \in { "remaining", "reset", "limit" } :
                Triplet(snap[1], m) = DefaultTriplet(m) )

\* C10 as amended: ratelimit always gives a snapshot; a metric whose three
\* headers are all present (none of them -1) takes the three header values,
\* every other metric takes its default triplet whole.
C10_PerMetric ==
    rpc # "headers"
    => /\ snap # None
       /\ \A m \in { "remaining", "reset", "limit" } :
            Triplet(snap[1], m) =
                IF MetricGiven(hdrs, m)
                THEN << hdrs[RateHeader(m, "short")], hdrs[RateHeader(m, "medium")],
                        hdrs[RateHeader(m, "large")] >>
                ELSE DefaultTriplet(m)

C10_Witness ==
    /\ rpc = "extracted"
    /\ ~ HasRateLimitHeaders(hdrs)
    /\ DOMAIN hdrs = MetricHeaders("remaining") \cup { RateHeader("reset", "short") }
    /\ snap[1].balance = << 2, 1, 0 >>
    /\ snap[1].reset = << 5, 60, 600 >>
    /\ snap[1].quota = << 5, 60, 200 >>

\* The triplet of a metric as the headers of one response carry it.
HeaderTriplet(headers, metric) ==
    << headers[RateHeader(metric, "short")], headers[RateHeader(metric, "medium")],
       headers[RateHeader(metric, "large")] >>

\* The loop of the current call ended on a break: response is the final one.
LoopBroke ==
    \/ pc \in { "rate", "status" }
    \/ pc = "done" /\ outcome.kind \notin { "TransportError", "RetryExhaustedError" }

\* C11: the rate-limit snapshot of the client is absent or made of three
\* triplets that are all the header values of one response carrying the nine
\* rate-limit headers, and a final response lacking one of the nine headers
\* leaves the snapshot and the cooldown as they were.
C11_SnapshotFromOneResponse ==
    /\ [] ( \/ ratelimit = None
            \/ \E r \in Responses :
                   /\ HasRateLimitHeaders(r.headers)
                   /\ \A m \in { "remaining", "reset", "limit" } :
                          Triplet(ratelimit[1], m) = HeaderTriplet(r.headers, m) )
    /\ [][ (pc = "rate" /\ ~ HasRateLimitHeaders(response.headers))
           => UNCHANGED << ratelimit, cooldown >> ]_vars

\* The rate-limit state as a refresh from the headers leaves it: the snapshot
\* holds, per metric, the header values (the default triplet for a metric with
\* a header value of -1), and the cooldown is the largest reset among the
\* windows with no request left, 0 when there is none.
RefreshedFrom(headers) ==
    /\ ratelimit # None
    /\ \A m \in { "remaining", "reset", "limit" } :
           Triplet(ratelimit[1], m) =
               IF MetricGiven(headers, m) THEN HeaderTriplet(headers, m)
               ELSE DefaultTriplet(m)
    /\ LET rl == ratelimit[1]
           exhausted == { i \in 1..3 : rl.balance[i] = 0 }
       IN  /\ \A i \in exhausted : cooldown >= rl.reset[i]
           /\ exhausted # {} => \E i \in exhausted : cooldown = rl.reset[i]
           /\ exhausted = {} => cooldown = 0

\* C12: when the loop of _call ended on a response carrying the nine
\* rate-limit headers, the snapshot and the cooldown are those of that response
\* from the moment the status is classified on, whether the call then returns
\* or raises; the next call on the client starts with that cooldown and its
\* first attempt sleeps exactly it.
C12_RefreshBeforeStatus ==
    /\ [] ( ( /\ LoopBroke
              /\ pc # "rate"
              /\ HasRateLimitHeaders(response.headers) )
            => RefreshedFrom(response.headers) )
    /\ [][ /\ (pc = "done" /\ pc' = "loop")
               => (cooldown' = cooldown /\ ratelimit' = ratelimit)
           /\ (pc = "loop" /\ attempt = 0 /\ pc' = "send")
               => (slept' = << cooldown >> /\ cooldown' = cooldown) ]_vars

C12_Witness ==
    /\ pc = "done"
    /\ outcome.kind = "HTTPError"
    /\ status = 404
    /\ response.headers = ExhaustedHeaders
    /\ ratelimit # None
    /\ ratelimit[1].balance = << 0, 0, 7 >>
    /\ cooldown = 90

\* The cooldown the loop writes while it handles response k of the current
\* call, a 5xx or a 429 that attempt k received after sleeping slept[k].
WrittenAfter(k) ==
    IF is_server_error(responses[k].status)
    THEN Min2(2 * (IF slept[k] = 0 THEN 1 ELSE slept[k]), 60)
    ELSE Max({ RetryValue(responses[k].headers, w) : w \in { "short", "medium", "large" } }, 0)

\* C13: in every attempt the cooldown is slept before the request is sent
\* (one sleep per request, the sleep first), and the value slept before attempt
\* k+1 is the cooldown written while the response of attempt k was handled.
C13_SleepBeforeSend ==
    /\ Len(slept) = (IF pc = "send" THEN sent + 1 ELSE sent)
    /\ \A k \in 1..(Len(slept) - 1) :
           /\ k <= Len(responses)
           /\ Retried(responses[k].status)
           /\ slept[k + 1] = WrittenAfter(k)

C13_Witness ==
    /\ pc = "send"
    /\ Len(slept) = 3
    /\ sent = 2
    /\ responses[1].status = 500
    /\ responses[2].status = 429
    /\ slept = << 0, 2, 90 >>

\* C14: _call returns normally only after a final response with a 2xx status;
\* a final response with any other status raises an HTTP status error carrying
\* that status, also when no response schema was requested or the client
\* streams.
C14_ReturnOnlyOn2xx ==
    pc = "done"
    => /\ ReturnedNormally
          => (Len(responses) >= 1 /\ 200 <= status /\ status <= 299)
       /\ (LoopBroke /\ ~ (200 <= status /\ status <= 299))
          => /\ IsInstance(outcome.kind, "HTTPError")
             /\ outcome.status = status

C14_Witness ==
    /\ pc = "done"
    /\ LoopBroke
    /\ stream
    /\ status = 404
    /\ outcome.kind = "HTTPError"
    /\ outcome.status = 404

\* C15: after a final 2xx response, _call returns None whenever no response
\* schema was requested or the client streams, whatever the body is, the empty
\* one included: neither EmptyBodyError nor ResponseValidationError is raised.
C15_NoneWithoutSchemaOrStreaming ==
    ( /\ pc = "done"
      /\ LoopBroke
      /\ is_success(status)
      /\ (data = "None" \/ stream) )
    => outcome.kind = "ReturnNone"

C15_Witness ==
    /\ pc = "done"
    /\ LoopBroke
    /\ stream
    /\ data = "Schema"
    /\ status = 200
    /\ response.content = "empty"
    /\ outcome.kind = "ReturnNone"

\* C16: after a final 2xx response, with a response schema requested and no
\* streaming, an empty body raises EmptyBodyError, a non-empty body failing the
\* schema raises ResponseValidationError, and a decoded value is returned only
\* for a body that passes the schema.
C16_BodyValidation ==
    pc = "done"
    => /\ ( /\ LoopBroke
            /\ is_success(status)
            /\ data # "None"
            /\ ~ stream )
          => outcome.kind =
                 CASE response.content = "empty" -> "EmptyBodyError"
                   [] response.content = "invalid" -> "ResponseValidationError"
                   [] response.content = "valid" -> "ReturnValue"
       /\ outcome.kind = "ReturnValue"
          => /\ Len(responses) >= 1
             /\ is_success(status)
             /\ response.content = "valid"
             /\ data # "None"
             /\ ~ stream

C16_Witness ==
    /\ pc = "done"
    /\ LoopBroke
    /\ ~ stream
    /\ data = "Schema"
    /\ status = 200
    /\ response.content = "invalid"
    /\ outcome.kind = "ResponseValidationError"

RECURSIVE Concat(_, _)
Concat(pages, k) == IF k = 0 THEN << >> ELSE Concat(pages, k - 1) \o pages[k]

\* C18: the k-th _call of one _call_paginated carries page = k and
\* pageSize = 100, whatever page or pageSize the caller had put in the
\* parameters: pages are requested in increasing order from 1, none skipped,
\* none twice.
C18_PageNumbers ==
    \A k \in 1..Len(executed) :
        /\ executed[k]["page"] = k
        /\ executed[k]["pageSize"] = 100

C18_Witness ==
    /\ Len(executed) = MaxPages + 1
    /\ "page" \in DOMAIN given.params
    /\ given.params["page"] = 7
    /\ given.params["pageSize"] = 10
    /\ executed[MaxPages + 1]["page"] = MaxPages + 1

\* C19: with no limit, no page is requested after an empty one, and what
\* _call_paginated returns is the concatenation, in page order and in the
\* order within each page, of the pages received before the empty page it
\* stopped at.
C19_AllPages ==
    limit = None
    => /\ \A k \in 1..(Len(fetched) - 1) : fetched[k] # << >>
       /\ collected.kind = "Return"
          => /\ fetched # << >>
             /\ fetched[Len(fetched)] = << >>
             /\ collected.items = Concat(fetched, Len(fetched) - 1)

C19_Witness ==
    /\ limit = None
    /\ collected.kind = "Return"
    /\ Len(fetched) = 4
    /\ Len(fetched[1]) = 2 /\ Len(fetched[2]) = 2 /\ Len(fetched[3]) = 1
    /\ collected.items = << << 1, 1 >>, << 1, 2 >>, << 2, 1 >>, << 2, 2 >>, << 3, 1 >> >>

\* C20: with a limit L, no page is requested once the pages received hold L
\* items or more, and what _call_paginated returns is the first L items
\* received, all of them when there are fewer: never more than L items.
C20_Limit ==
    limit # None
    => /\ \A k \in 1..(Len(executed) - 1) :
              /\ k <= Len(fetched)
              /\ Len(Concat(fetched, k)) < limit[1]
       /\ collected.kind = "Return"
          => /\ Len(collected.items) <= limit[1]
             /\ collected.items = Take(Concat(fetched, Len(fetched)), limit[1])

C20_Witness ==
    /\ limit = Some(3)
    /\ collected.kind = "Return"
    /\ Len(fetched) = 2
    /\ Len(fetched[1]) = 2 /\ Len(fetched[2]) = 2
    /\ collected.items = << << 1, 1 >>, << 1, 2 >>, << 2, 1 >> >>

\* C21: with a progress callback, every non-empty page is followed by one
\* call of it with current = the number of items accumulated and total =
\* min(limit, envelope.total) with a limit, envelope.total without one; a call
\* with a callback and no limit does not fail.
C21_ProgressCalls ==
    progress
    => /\ collected.kind # "ValueError"
       /\ ppc = "limit"
          => /\ Len(reported) = Len(fetched)
             /\ reported[Len(reported)] =
                    << Len(results),
                       IF limit # None THEN Min2(limit[1], envelope[1].total)
                       ELSE envelope[1].total >>

\* The pages received so far that hold an item.
NonEmptyPages == { k \in 1..Len(fetched) : fetched[k] # << >> }

\* C22: with a limit, the progress calls of one _call_paginated have
\* non-decreasing current values, each the number of items accumulated by a
\* non-empty page, totals that never exceed the limit, and there is no call
\* for the empty page that ends the collection.
C22_ProgressWithLimit ==
    limit # None
    => /\ \A k \in 1..Len(reported) :
              /\ reported[k][2] <= limit[1]
              /\ k \in NonEmptyPages
              /\ reported[k][1] = Len(Concat(fetched, k))
              /\ k > 1 => reported[k - 1][1] <= reported[k][1]
       /\ Len(reported) <= Cardinality(NonEmptyPages)

C22_Witness ==
    /\ limit = Some(3)
    /\ collected.kind = "Return"
    /\ Len(fetched) = 3
    /\ fetched[3] = << >>
    /\ reported = << << 1, 3 >>, << 2, 1 >> >>

\* C23: the metadata _call_paginated returns is the metadata of the last page
\* it received, None when that page had none, never that of an earlier page.
C23_LastMetadata ==
    collected.kind = "Return"
    => /\ metas # << >>
       /\ collected.metadata = metas[Len(metas)]

C23_Witness ==
    /\ collected.kind = "Return"
    /\ Len(metas) = 3
    /\ metas[2] = Some(<< "metadata", 2 >>)
    /\ metas[3] = None
    /\ collected.metadata = None

\* The last _call of _call_paginated raised.
ExecutorRaised == outcome.kind \notin { "none", "ReturnNone", "ReturnValue" }

\* C24: when a _call made by _call_paginated raises, _call_paginated ends
\* raising that same error: it returns no item list, the items of the earlier
\* pages included, and no request follows.
C24_ErrorPropagates ==
    /\ [] ( ExecutorRaised
            => /\ ppc = "done"
               /\ collected.kind # "Return"
               /\ collected.error = outcome
               /\ collected.items = << >> )
    /\ [][ ExecutorRaised => executed' = executed ]_vars

C24_Witness ==
    /\ ExecutorRaised
    /\ outcome.kind = "HTTPError"
    /\ outcome.status = 404
    /\ Len(executed) = 2
    /\ Len(results) = 2
    /\ collected.error.status = 404

\* The method, the URL and the query parameters other than page and pageSize
\* are the caller's, and page holds the number of the last page requested once
\* _call_paginated has ended.
ParamsFrame ==
    /\ request.method = given.request.method
    /\ request.url = given.request.url
    /\ DOMAIN params = DOMAIN given.params \cup { "page", "pageSize" }
    /\ \A q \in DOMAIN given.params \ { "page", "pageSize" } :
           params[q] = given.params[q]
    /\ ppc = "done" => params["page"] = Len(executed)

\* C25 as claimed: through one _call_paginated the method, the URL, the
\* headers and the query parameters other than page and pageSize of the
\* request descriptor are the ones the caller passed, and page ends as the
\* number of the last page requested.
C25_DescriptorUntouched ==
    ppc \notin { "off", "idle" }
    => /\ ParamsFrame
       /\ request.headers = given.request.headers

\* C25 as amended: the same, except that the headers are the caller's with
\* the default User-Agent added by the first _call when the caller passed
\* none.
C25_DescriptorFrame ==
    ppc \notin { "off", "idle" }
    => /\ ParamsFrame
       /\ \A h \in DOMAIN given.request.headers :
              /\ h \in DOMAIN request.headers
              /\ request.headers[h] = given.request.headers[h]
       /\ IF executed = << >>
          THEN request.headers = given.request.headers
          ELSE /\ DOMAIN request.headers =
                      DOMAIN given.request.headers \cup { "User-Agent" }
               /\ "User-Agent" \notin DOMAIN given.request.headers
                  => request.headers["User-Agent"] = DEFAULT_USER_AGENT

C25_Witness ==
    /\ ppc = "done"
    /\ Len(executed) = 3
    /\ given.params = ("page" :> 7) @@ ("pageSize" :> 10) @@ ("q" :> 5)
    /\ params = ("page" :> 3) @@ ("pageSize" :> 100) @@ ("q" :> 5)
    /\ "User-Agent" \notin DOMAIN given.request.headers
    /\ request.headers["User-Agent"] = DEFAULT_USER_AGENT
    /\ request.headers["Accept"] = "application/json"

\* ----------------------------------------------------- Client mode claims
\* The method o has returned or raised.
Finished(o) == cpc = "idle" /\ op = o /\ result # NoResult

\* C26: connect takes the client from NONE to ANON only when a base URL is
\* set and the health check returned status "ok"; on a connected client,
\* without a base URL, with another health status or when the health request
\* raises, connect raises and the mode is as it was.
C26_Connect ==
    Finished("connect") =>
        /\ (entry.mode = "NONE" /\ base # None /\ health = Some("ok"))
               => (result.kind = "Return" /\ mode = "ANON")
        /\ (entry.mode # "NONE" \/ base = None \/ health # Some("ok"))
               => (result.kind # "Return" /\ mode = entry.mode)
        /\ (entry.mode # "NONE" \/ base = None)
               => (result.kind = "ClientConnectionError" /\ issued = 0)
        /\ (health # None /\ health # Some("ok"))
               => result.kind = "ClientConnectionError"
        /\ (issued = 1 /\ outcome.kind \notin { "ReturnNone", "ReturnValue" })
               => (result.error = outcome /\ health = None)
        /\ user = entry.user

C26_Witness ==
    /\ Finished("connect")
    /\ entry.mode = "NONE"
    /\ mode = "ANON"
    /\ health = Some("ok")

\* C27: a @connected method on a client in mode NONE raises NotConnectedError
\* and an @authenticated method on a client not in mode AUTH raises
\* NotAuthenticatedError; no request is sent and the client is as it was.
C27_Guards ==
    /\ (op \in ConnectedOps /\ entry.mode = "NONE") =>
           /\ cpc \in { "guard", "idle" }
           /\ issued = 0
           /\ Entered = entry
           /\ cpc = "idle" => result.kind = "NotConnectedError"
    /\ (op \in AuthenticatedOps /\ entry.mode # "AUTH") =>
           /\ cpc \in { "guard", "idle" }
           /\ issued = 0
           /\ Entered = entry
           /\ cpc = "idle" => result.kind = "NotAuthenticatedError"

C27_Witness ==
    /\ Finished("me")
    /\ entry.mode = "ANON"
    /\ result.kind = "NotAuthenticatedError"
    /\ issued = 0

\* C28: a sign_in that returns leaves mode AUTH and a user; a sign_out that
\* returns leaves mode ANON and no user; disconnect on a connected client
\* leaves mode NONE and no user; while sign_in or sign_out has not returned,
\* and when one of its requests raised, mode and user are as they were.
C28_Transitions ==
    /\ (Finished("sign_in") /\ result.kind = "Return") =>
           (mode = "AUTH" /\ user # None /\ issued = 3)
    /\ (Finished("sign_out") /\ result.kind = "Return") =>
           (entry.mode = "AUTH" /\ mode = "ANON" /\ user = None /\ issued = 1)
    /\ (Finished("disconnect") /\ entry.mode # "NONE") =>
           (result.kind = "Return" /\ mode = "NONE" /\ user = None)
    /\ (op \in { "sign_in", "sign_out" } /\ result.kind # "Return") =>
           (mode = entry.mode /\ user = entry.user)
    /\ (op \in { "sign_in", "sign_out" } /\ cpc = "idle" /\ issued > 0
            /\ outcome.kind \notin { "ReturnNone", "ReturnValue" }) =>
           result.error = outcome

C28_Witness ==
    /\ Finished("sign_out")
    /\ result.kind = "Return"
    /\ entry.mode = "AUTH"
    /\ entry.user # None
    /\ user = None

\* C29: on an authenticated client opt_in with a consent that is already
\* true, and opt_out with a consent that is not true, send no request and
\* change nothing; otherwise one request is sent, the consent is flipped when
\* it succeeded and is as it was when it raised.
C29_Consent ==
    /\ (Finished("opt_in") /\ entry.mode = "AUTH") =>
           IF Consenting(entry.user)
           THEN result.kind = "Return" /\ issued = 0 /\ Entered = entry
           ELSE /\ issued = 1
                /\ mode = entry.mode
                /\ IF result.kind = "Return"
                   THEN /\ outcome.kind = "ReturnNone"
                        /\ user = Some([ entry.user[1] EXCEPT !.consent = Some(TRUE) ])
                        /\ is_opted_in
                   ELSE result.error = outcome /\ user = entry.user
    /\ (Finished("opt_out") /\ entry.mode = "AUTH") =>
           IF ~ Consenting(entry.user)
           THEN result.kind = "Return" /\ issued = 0 /\ Entered = entry
           ELSE /\ issued = 1
                /\ mode = entry.mode
                /\ IF result.kind = "Return"
                   THEN /\ outcome.kind = "ReturnNone"
                        /\ user = Some([ entry.user[1] EXCEPT !.consent = Some(FALSE) ])
                        /\ ~ is_opted_in
                   ELSE result.error = outcome /\ user = entry.user

C29_Witness ==
    /\ Finished("opt_in")
    /\ entry.mode = "AUTH"
    /\ entry.user[1].consent = None
    /\ result.kind = "Return"
    /\ issued = 1
    /\ is_opted_in

\* ------------------------------------------------------- partial claims
\* The value provided for f breaks the constraint f was declared with.
Breaks(f) ==
    /\ f \in DOMAIN kwargs
    /\ original[f].constraint # None
    /\ \/ kwargs[f].type = "int" /\ original[f].annotation = "int"
             /\ kwargs[f].int < original[f].constraint[1]
       \/ kwargs[f].type = "str" /\ original[f].annotation = "str"
             /\ Len(kwargs[f].str) < original[f].constraint[1]

\* C30: the class partial returns has the fields of the original, each
\* accepting None with default None, so that a field left out is None in the
\* instance, and a provided value that breaks the constraint its field was
\* declared with is still rejected with a ValidationError.
C30_Partial ==
    /\ tpc \in { "applied", "constructed" } =>
           /\ DOMAIN derived = DOMAIN original
           /\ \A f \in DOMAIN derived :
                  /\ derived[f].default = NoneValue
                  /\ ~ derived[f].required
                  /\ derived[f].optional
    /\ tpc = "constructed" =>
           /\ (\E f \in DOMAIN original : Breaks(f)) => instance = ValidationError
           /\ instance.kind = "instance" =>
                  \A f \in DOMAIN original :
                      instance.fields[f] =
                          IF f \in DOMAIN kwargs THEN kwargs[f] ELSE NoneValue
           /\ kwargs = << >> => instance.kind = "instance"

C30_Witness ==
    /\ tpc = "constructed"
    /\ DOMAIN original = { "field1", "field2" }
    /\ original["field1"].required
    /\ original["field1"].constraint = Some(0)
    /\ DOMAIN kwargs = { "field1" }
    /\ kwargs["field1"] = IntValue(-1)
    /\ instance = ValidationError

\* ------------------------------------------------- _call: budget and frame
\* C31: a call sends at most `retries` requests: a request is prepared and
\* sent only while fewer than `retries` attempts have been made, and the call
\* has ended, with a return or an error, after at most `retries` attempts.
C31_Budget ==
    /\ sent <= retries
    /\ Len(slept) <= retries
    /\ attempt <= retries
    /\ pc \in { "send", "classify", "except", "rate", "status" } => attempt < retries
    /\ pc = "loop" => (sent = attempt /\ Len(responses) = attempt)
    /\ pc = "done" =>
           /\ outcome # NoOutcome
           /\ sent <= retries
           /\ outcome.kind = "RetryExhaustedError" =>
                  (sent = retries /\ attempt = retries)

C31_Witness ==
    /\ pc = "done"
    /\ retries = 3
    /\ sent = 3
    /\ Statuses = << 500, 429, 503 >>
    /\ outcome.kind = "RetryExhaustedError"

\* C32: the snapshot is written only by the step that follows the loop, on a
\* final response that is neither 5xx nor 429 and carries the nine headers;
\* that step is taken at most once in a call, and a call that ends with
\* RetryExhaustedError or TransportError never takes it.
C32_SnapshotWrittenOnce ==
    /\ [][ ratelimit' # ratelimit
           => ( /\ pc = "rate"
                /\ pc' = "status"
                /\ ~ Retried(status)
                /\ HasRateLimitHeaders(response.headers)
                /\ ratelimit' = Some(_ratelimit(response.headers)) ) ]_vars
    /\ [][ /\ pc' = "rate" => (pc = "classify" /\ ~ Retried(status))
           /\ pc \in { "rate", "status" } => pc' \in { "status", "done" }
           /\ (pc' = "done" /\ pc # "done"
                 /\ outcome'.kind \in { "RetryExhaustedError", "TransportError" })
               => (pc \in { "loop", "except" } /\ ratelimit' = ratelimit) ]_vars

C32_Witness ==
    /\ pc = "done"
    /\ outcome.kind = "RetryExhaustedError"
    /\ retries = 2
    /\ Statuses = << 503, 503 >>
    /\ HasRateLimitHeaders(responses[1].headers)
    /\ ratelimit = None

\* The cooldown is written only while a 5xx or a 429 response is handled in
\* the loop and by the refresh from a final response with the nine headers:
\* the end of a call, with RetryExhaustedError or on a response lacking one of
\* the headers, leaves it, and the first attempt of the next call sleeps it.
CooldownKept ==
    /\ cooldown' # cooldown
       => \/ pc = "classify" /\ Retried(status)
          \/ pc = "rate" /\ HasRateLimitHeaders(response.headers)
    /\ (pc \in { "done", "idle" } /\ pc' = "loop") => cooldown' = cooldown
    /\ (pc = "loop" /\ attempt = 0 /\ pc' = "send") => slept' = << cooldown >>

\* The headers carry all nine rate-limit values and no window is exhausted.
NoExhaustedWindow(headers) ==
    /\ HasRateLimitHeaders(headers)
    /\ \A w \in { "short", "medium", "large" } :
           headers[RateHeader("remaining", w)] > 0

\* C33 as claimed: a cooldown raised in the loop is kept to the end of the
\* call and slept by the first attempt of the next one, and a cooldown
\* returns to 0 only through a refresh from nine headers with no window
\* exhausted.
C33_ZeroOnlyByRefresh ==
    [][ /\ CooldownKept
        /\ (cooldown # 0 /\ cooldown' = 0)
           => (pc = "rate" /\ NoExhaustedWindow(response.headers)) ]_vars

\* C33 as amended: the cooldown returns to 0 through such a refresh, or
\* through a refresh in which every exhausted window has a reset of 0, or
\* through a 429 response whose three retry-after headers are all 0.
C33_ZeroByRefreshOrRetryAfter ==
    [][ /\ CooldownKept
        /\ (cooldown # 0 /\ cooldown' = 0)
           => \/ /\ pc = "rate"
                 /\ HasRateLimitHeaders(response.headers)
                 /\ _cooldown(_ratelimit(response.headers)) = 0
              \/ /\ pc = "classify"
                 /\ status = TOO_MANY_REQUESTS
                 /\ \A w \in { "short", "medium", "large" } :
                        RetryValue(response.headers, w) = 0 ]_vars

C33_Witness ==
    /\ pc = "send"
    /\ attempt = 0
    /\ slept = << 4 >>
    /\ cooldown = 4
    /\ ratelimit = None

\* C34: once a 5xx response has been handled in the loop the cooldown is at
\* least 2 and at most 60, and it is 60 when the cooldown slept before that
\* attempt was above 60.
C34_BackoffRange ==
    \A i \in 1..Len(responses) :
        (is_server_error(responses[i].status) /\ HandledInLoop(i))
        => /\ 2 <= CooldownAfter(i)
           /\ CooldownAfter(i) <= 60
           /\ slept[i] > 60 => CooldownAfter(i) = 60

C34_Witness ==
    /\ pc = "loop"
    /\ Len(responses) = 1
    /\ is_server_error(status)
    /\ slept = << 90 >>
    /\ cooldown = 60

\* --------------------------------------------- _call_paginated: the loop
\* The number of non-empty pages received.
NonEmptyCount == Cardinality({ k \in 1..Len(fetched) : fetched[k] # << >> })

\* C35: with no limit the loop is left for the return only at an empty page,
\* whatever the size of the pages before it and the totals of their
\* envelopes: every non-empty page is followed by one more _call, and a
\* _call_paginated that returns after N non-empty pages has made N + 1 calls.
C35_StopsOnEmptyOnly ==
    limit = None
    => /\ ppc = "return" => (envelope # None /\ envelope[1].data = << >>)
       /\ ppc \in { "progress", "limit" } =>
              (Len(executed) = NonEmptyCount /\ envelope[1].data # << >>)
       /\ ppc = "execute" => Len(executed) = NonEmptyCount
       /\ collected.kind = "Return" => Len(executed) = NonEmptyCount + 1

C35_Witness ==
    /\ limit = None
    /\ collected.kind = "Return"
    /\ Len(executed) = 4
    /\ Len(fetched[1]) = 2 /\ Len(fetched[2]) = 1 /\ Len(fetched[3]) = 2
    /\ Len(collected.items) = 5
    /\ envelope[1].total = 1

\* C36: _call_paginated ends, the server answering the pages past the last
\* one with an empty page or any page with an error; with a limit L >= 1 it
\* makes at most L calls of _call; with no limit a non-empty page is always
\* followed by the request of the next one, so nothing but an empty page or a
\* raise ends it.
C36_Terminates ==
    /\ <>(ppc = "done")
    /\ [] ( (limit # None /\ limit[1] >= 1) => Len(executed) <= limit[1] )
    /\ [][ (limit = None /\ ppc = "limit") => ppc' = "execute" ]_vars
    /\ [][ (Len(executed') > Len(executed) /\ Len(executed) >= 1 /\ limit # None)
           => Len(results) >= Len(executed) ]_vars

C36_Witness ==
    /\ ppc = "done"
    /\ limit = Some(3)
    /\ Len(executed) = 3
    /\ Len(results) = 3
    /\ collected.kind = "Return"

\* The error classes of errors.py that _call raises.
Taxonomy ==
    { "TransportError", "RetryExhaustedError", "HTTPError", "ClientError",
      "ServerError", "RateLimitError", "EmptyBodyError", "ResponseValidationError" }

\* C37: every _call of _call_paginated that returns gives a decoded envelope,
\* on a streaming client too, and an error that leaves _call_paginated is one
\* of the classes _call raises.
C37_TaxonomyOnly ==
    /\ ppc = "received" => envelope # None
    /\ (ppc = "done" /\ collected.kind # "Return") => collected.kind \in Taxonomy

\* C38: whatever methods of the client have been called, and however they
\* ended, the client has a user exactly when its mode is AUTH, so that
\* is_opted_in implies is_auth.
C38_UserIffAuth ==
    /\ (user # None) <=> (mode = "AUTH")
    /\ is_opted_in => mode = "AUTH"

C38_Witness ==
    /\ Finished("sign_in")
    /\ result.kind = "TransportError"
    /\ entry.mode = "AUTH"
    /\ mode = "AUTH"
    /\ is_opted_in

\* ------------------------------------------------------ two calls at once
\* Thread t has slept, for the attempt that follows a 5xx or a 429 response,
\* less than the cooldown it set when it handled that response.
SleptShort(t) ==
    /\ calls[t].pc \in { "send", "classify", "backoff" }
    /\ calls[t].owed >= 0
    /\ calls[t].slept < calls[t].owed

\* C39: an attempt that follows a 5xx or a 429 response sleeps less than the
\* cooldown that response set only when the other call has written the
\* shared cooldown in between, the two calls being in progress together; with
\* one call at a time every such attempt sleeps exactly what was set.
C39_ShortSleepOnlyInterleaved ==
    \A t \in Threads :
        /\ SleptShort(t) => (calls[t].hit /\ overlap)
        /\ ( /\ calls[t].pc \in { "send", "classify", "backoff" }
             /\ calls[t].owed >= 0
             /\ ~ overlap )
           => calls[t].slept = calls[t].owed

C39_Witness ==
    /\ overlap
    /\ SleptShort(1)
    /\ calls[1].owed = 5
    /\ calls[1].slept = 0
    /\ calls[2].pc = "status"

====
